---- MODULE Spec2Model ----
(***************************************************************************)
(* Model of pkg/cache: the in-process store with TTL expiry under the two  *)
(* eviction policies (LRUCache, FIFOCache), its background expiry sweep,   *)
(* and the multi-level read-through GetWithMultiLevelCache that runs the   *)
(* miss path under a singleflight group.                                   *)
(*                                                                         *)
(* Every store method runs entirely under the store's mutex, so one method *)
(* call is one step.  Time is a discrete clock `now` read by time.Now().   *)
(***************************************************************************)
EXTENDS Integers, Sequences, FiniteSets, TLC

(* ------------------------------ bounds -------------------------------- *)

\* the clock runs from 0 to MaxTime
MaxTime == 2

\* at most MaxPending `go c.Delete(key)` goroutines outstanding at a time
MaxPending == 1

Keys == {"a", "b", "c"}

\* opaque values held by the store ("i1": int 1, "f1": float64 1)
Values == {"i1", "f1"}

\* ttlSeconds arguments, in clock units
TTLs == {-1, 0, 1}

\* defaultTtlSeconds given to the constructor
DefaultTTLs == {1}

\* capacities a store is built with
Capacities == {0, 1, 2}

Policies == {"LRU", "FIFO"}

Nil == "nil"

NoKey == "none"

(* ------------------------------ state --------------------------------- *)

VARIABLES
    policy,         \* which implementation NewCache returned
    cfgType,        \* history: the cfg.Type NewCache was given
    mu,             \* c.mu: the call holding it for writing, the calls holding it for reading
    maxSize,        \* c.maxSize
    defaultTtl,     \* c.defaultTtl, in seconds
    list,           \* c.list: the items front to back, each [key, Value, Timeout]
    cacheData,      \* c.cacheData: the keys that have a map entry
    now,            \* the wall clock
    pendingDelete,  \* per key, the `go c.Delete(key)` goroutines not yet run
    result,         \* the map the latest GetAll returned, in the hands of its caller
    stopChan,       \* c.stopChan: "open" or "closed"
    reaper,         \* the goroutine running cleanupExpiredKeys: at the "select",
                    \* in the ticker branch before its "sweep", or "exited"
    promoted,       \* history: present keys by their most recent promotion, oldest first (LRU)
    inserted,       \* history: present keys by their insertion as a new key, oldest first (FIFO)
    script,         \* history: progress through Set(a), Set(b), Get(a), Set(c); -1 once left
    last,           \* history: the store operation completed by the step just taken
    memTTL,         \* GetWithMultiLevelCache: the memTTL argument
    redisTTL,       \* GetWithMultiLevelCache: the redisTTL argument
    memCacheOf,     \* per caller, the memCache argument: store 1 or store 2
    ctx,            \* per caller, the ctx argument: "active" or "canceled"
    redisClient,    \* GetWithMultiLevelCache: the redisClient argument, a client or nil
    memCache2,      \* store 2: a second store, [list, cacheData, pendingDelete]
    syncToRedis,    \* GetWithMultiLevelCache: the syncToRedis argument
    redis,          \* tier 2: per key the stored payload, or Missing
    m,              \* sfGroup: per key the caller executing the in-flight call, or 0
    pc,             \* per caller, its position in GetWithMultiLevelCache
    call,           \* per caller, its key and the locals of its call
    returned,       \* per caller, the (value, error) its call returned
    fetchCalls,     \* per key, how many times fetchAPI was invoked
    did,            \* history: per caller, what its call has done so far
    redis0,         \* history: tier 2 as it was at the start
    overlap         \* history: every call so far began before any call returned

lifeVars == <<stopChan, reaper>>

storeVars ==
    <<policy, cfgType, maxSize, defaultTtl, mu, list, cacheData, now, pendingDelete, result,
      lifeVars>>

ghostVars == <<promoted, inserted, script, last>>

\* the arguments of the calls of GetWithMultiLevelCache
mlArgs == <<memTTL, redisTTL, memCacheOf, ctx, redisClient>>

mlVars ==
    <<mlArgs, memCache2, syncToRedis, redis, m, pc, call, returned, fetchCalls, did,
      redis0, overlap>>

vars == <<storeVars, ghostVars, mlVars>>

(* --------------------------- container/list --------------------------- *)

KeysOf(l) == {l[i].key : i \in DOMAIN l}

\* the position of the element the map entry of key k points to (0: none)
IndexOf(l, k) ==
    IF \E i \in DOMAIN l : l[i].key = k
    THEN CHOOSE i \in DOMAIN l : l[i].key = k
    ELSE 0

\* list.Remove(e)
ListRemove(l, i) ==
    IF i \in DOMAIN l
    THEN SubSeq(l, 1, i - 1) \o SubSeq(l, i + 1, Len(l))
    ELSE l

\* list.MoveToBack(e)
ListMoveToBack(l, i) ==
    IF i \in DOMAIN l
    THEN ListRemove(l, i) \o <<l[i]>>
    ELSE l

\* time.Time.After
After(t, u) == t > u

\* no map: GetAll has not been called
NoMap == <<>>

NoItem == [key |-> NoKey, Value |-> Nil, Timeout |-> 0]

\* the item of the element the map entry of key k points to
ItemOf(k) == IF IndexOf(list, k) = 0 THEN NoItem ELSE list[IndexOf(list, k)]

NewItem(k, v, ttl) == [key |-> k, Value |-> v, Timeout |-> now + ttl]

(* ------------------------------ LRUCache ------------------------------ *)

\* the element's data after `item.data.Value = value; item.data.Timeout = ...`
Updated(l, i, value, ttlSeconds) ==
    IF i \in DOMAIN l
    THEN [l EXCEPT ![i].Value = value, ![i].Timeout = now + ttlSeconds]
    ELSE l

\* (mutation for C1: the capacity test off by one)
MustEvict_OffByOne(l) == Len(l) > maxSize /\ Len(l) > 0

\* (mutation for C38: a capacity that is not positive is never full)
MustEvict_PositiveOnly(l) == maxSize > 0 /\ Len(l) >= maxSize

\* `if c.list.Len() >= c.maxSize`, and `oldest != nil`
MustEvict(l) == Len(l) >= maxSize /\ Len(l) > 0

\* (mutation for C23: a full store is emptied to make room)
AfterEvict_All(l) == IF MustEvict(l) THEN <<>> ELSE l

\* the key of c.list.Front() when the insertion evicts, else NoKey
Victim(l) == IF MustEvict(l) THEN Head(l).key ELSE NoKey

\* the list after the eviction block of SetWithTTL
AfterEvict(l) == IF MustEvict(l) THEN Tail(l) ELSE l

\* (mutation for C21: an update leaves the Timeout as it was)
LRUCache_SetWithTTL_KeepsTimeout(key, value, ttlSeconds) ==
    /\ IF key \in cacheData
       THEN /\ list' = ListMoveToBack(
                           [list EXCEPT ![IndexOf(list, key)].Value = value],
                           IndexOf(list, key))
            /\ cacheData' = cacheData
       ELSE /\ list' = Append(AfterEvict(list), NewItem(key, value, ttlSeconds))
            /\ cacheData' = (cacheData \ {Victim(list)}) \cup {key}
    /\ UNCHANGED pendingDelete

LRUCache_SetWithTTL(key, value, ttlSeconds) ==
    /\ IF key \in cacheData
       THEN /\ list' = ListMoveToBack(
                           Updated(list, IndexOf(list, key), value, ttlSeconds),
                           IndexOf(list, key))
            /\ cacheData' = cacheData
       ELSE /\ list' = Append(AfterEvict(list), NewItem(key, value, ttlSeconds))
            /\ cacheData' = (cacheData \ {Victim(list)}) \cup {key}
    /\ UNCHANGED pendingDelete

\* (mutation for C5: the expiry test left out)
LRUCache_GetResult_NoExpiry(key) ==
    IF key \notin cacheData
    THEN [val |-> Nil, ok |-> FALSE]
    ELSE [val |-> ItemOf(key).Value, ok |-> TRUE]

\* what LRUCache.Get returns: (value, ok)
LRUCache_GetResult(key) ==
    IF key \notin cacheData
    THEN [val |-> Nil, ok |-> FALSE]
    ELSE [val |-> ItemOf(key).Value, ok |-> ~After(now, ItemOf(key).Timeout)]

\* (mutation for C3: a hit does not move the element)
LRUCache_Get_NoPromote(key) ==
    /\ IF key \notin cacheData
       THEN UNCHANGED <<list, cacheData>>
       ELSE IF After(now, ItemOf(key).Timeout)
            THEN /\ list' = ListRemove(list, IndexOf(list, key))
                 /\ cacheData' = cacheData \ {key}
            ELSE UNCHANGED <<list, cacheData>>
    /\ UNCHANGED pendingDelete

\* (mutation for C24: a hit renews the Timeout)
LRUCache_Get_Refreshes(key) ==
    /\ IF key \notin cacheData
       THEN UNCHANGED <<list, cacheData>>
       ELSE IF After(now, ItemOf(key).Timeout)
            THEN /\ list' = ListRemove(list, IndexOf(list, key))
                 /\ cacheData' = cacheData \ {key}
            ELSE /\ list' = ListMoveToBack(
                                [list EXCEPT ![IndexOf(list, key)].Timeout = now + defaultTtl + 1],
                                IndexOf(list, key))
                 /\ cacheData' = cacheData
    /\ UNCHANGED pendingDelete

LRUCache_Get(key) ==
    /\ IF key \notin cacheData
       THEN UNCHANGED <<list, cacheData>>
       ELSE IF After(now, ItemOf(key).Timeout)
            THEN /\ list' = ListRemove(list, IndexOf(list, key))
                 /\ cacheData' = cacheData \ {key}
            ELSE /\ list' = ListMoveToBack(list, IndexOf(list, key))
                 /\ cacheData' = cacheData
    /\ UNCHANGED pendingDelete

\* (mutation for C6: the map entry is left behind)
LRUCache_Delete_KeepsEntry(key) ==
    /\ IF key \in cacheData
       THEN /\ list' = ListRemove(list, IndexOf(list, key))
            /\ cacheData' = cacheData
       ELSE UNCHANGED <<list, cacheData>>
    /\ UNCHANGED pendingDelete

LRUCache_Delete(key) ==
    /\ IF key \in cacheData
       THEN /\ list' = ListRemove(list, IndexOf(list, key))
            /\ cacheData' = cacheData \ {key}
       ELSE UNCHANGED <<list, cacheData>>
    /\ UNCHANGED pendingDelete

LRUCache_Clear ==
    /\ list' = <<>>
    /\ cacheData' = {}
    /\ UNCHANGED pendingDelete

\* what LRUCache.Touch returns
LRUCache_TouchResult(key) ==
    key \in cacheData /\ ~After(now, ItemOf(key).Timeout)

\* (mutation for C37: Touch leaves an expired entry where it is)
LRUCache_Touch_KeepsExpired(key) ==
    /\ IF key \notin cacheData \/ After(now, ItemOf(key).Timeout)
       THEN UNCHANGED <<list, cacheData>>
       ELSE /\ list' = ListMoveToBack(list, IndexOf(list, key))
            /\ cacheData' = cacheData
    /\ UNCHANGED pendingDelete

\* lines 343-364: as Get, without the value
LRUCache_Touch(key) ==
    /\ IF key \notin cacheData
       THEN UNCHANGED <<list, cacheData>>
       ELSE IF After(now, ItemOf(key).Timeout)
            THEN /\ list' = ListRemove(list, IndexOf(list, key))
                 /\ cacheData' = cacheData \ {key}
            ELSE /\ list' = ListMoveToBack(list, IndexOf(list, key))
                 /\ cacheData' = cacheData
    /\ UNCHANGED pendingDelete

\* one pass of the ticker branch of cleanupExpiredKeys: the loop over the list
Sweep(l) == SelectSeq(l, LAMBDA item : ~After(now, item.Timeout))

SweptKeys(l) == {l[i].key : i \in {j \in DOMAIN l : After(now, l[j].Timeout)}}

\* (mutation for C18: the sweep also removes the entries that expire just now)
LRUCache_cleanupExpiredKeys_Eager ==
    /\ list' = SelectSeq(list, LAMBDA item : now < item.Timeout)
    /\ cacheData' = {list[i].key : i \in {j \in DOMAIN list : now < list[j].Timeout}}
    /\ UNCHANGED pendingDelete

\* (mutation for C26: the expired entries are not skipped)
LRUCache_GetAll_NoSkip == [key \in cacheData |-> ItemOf(key).Value]

\* what LRUCache.GetAll returns: `result`, a map made by the call
LRUCache_GetAll ==
    [key \in {k \in cacheData : ~After(now, ItemOf(k).Timeout)} |-> ItemOf(key).Value]

\* what LRUCache.Size returns
LRUCache_Size == Len(list)

LRUCache_cleanupExpiredKeys ==
    /\ list' = Sweep(list)
    /\ cacheData' = cacheData \ SweptKeys(list)
    /\ UNCHANGED pendingDelete

(* ------------------------------ FIFOCache ----------------------------- *)

\* (mutation for C4: an update moves the element to the back)
FIFOCache_SetWithTTL_Moves(key, value, ttlSeconds) ==
    /\ IF key \in cacheData
       THEN /\ list' = ListMoveToBack(
                           Updated(list, IndexOf(list, key), value, ttlSeconds),
                           IndexOf(list, key))
            /\ cacheData' = cacheData
       ELSE /\ list' = Append(AfterEvict(list), NewItem(key, value, ttlSeconds))
            /\ cacheData' = (cacheData \ {Victim(list)}) \cup {key}
    /\ UNCHANGED pendingDelete

\* (mutation for C22: the capacity test comes before the look-up of the key)
FIFOCache_SetWithTTL_EvictsFirst(key, value, ttlSeconds) ==
    /\ IF key \in cacheData /\ ~MustEvict(list)
       THEN /\ list' = Updated(list, IndexOf(list, key), value, ttlSeconds)
            /\ cacheData' = cacheData
       ELSE /\ list' = Append(AfterEvict(list), NewItem(key, value, ttlSeconds))
            /\ cacheData' = (cacheData \ {Victim(list)}) \cup {key}
    /\ UNCHANGED pendingDelete

FIFOCache_SetWithTTL(key, value, ttlSeconds) ==
    /\ IF key \in cacheData
       THEN /\ list' = Updated(list, IndexOf(list, key), value, ttlSeconds)
            /\ cacheData' = cacheData
       ELSE /\ list' = Append(AfterEvict(list), NewItem(key, value, ttlSeconds))
            /\ cacheData' = (cacheData \ {Victim(list)}) \cup {key}
    /\ UNCHANGED pendingDelete

\* what FIFOCache.Get returns: (value, ok)
FIFOCache_GetResult(key) ==
    IF key \notin cacheData
    THEN [val |-> Nil, ok |-> FALSE]
    ELSE [val |-> ItemOf(key).Value, ok |-> ~After(now, ItemOf(key).Timeout)]

\* Get holds the read lock and changes nothing; on an expired entry it starts
\* `go c.Delete(key)`, which runs later as its own step (FIFOCache_goDelete)
FIFOCache_Get(key) ==
    /\ UNCHANGED <<list, cacheData>>
    /\ IF key \in cacheData /\ After(now, ItemOf(key).Timeout)
       THEN pendingDelete' = [pendingDelete EXCEPT ![key] = @ + 1]
       ELSE UNCHANGED pendingDelete

\* (mutation for C25: an expired entry is left to the reaper)
FIFOCache_Delete_OnlyLive(key) ==
    /\ IF key \in cacheData /\ ~After(now, ItemOf(key).Timeout)
       THEN /\ list' = ListRemove(list, IndexOf(list, key))
            /\ cacheData' = cacheData \ {key}
       ELSE UNCHANGED <<list, cacheData>>
    /\ UNCHANGED pendingDelete

FIFOCache_Delete(key) ==
    /\ IF key \in cacheData
       THEN /\ list' = ListRemove(list, IndexOf(list, key))
            /\ cacheData' = cacheData \ {key}
       ELSE UNCHANGED <<list, cacheData>>
    /\ UNCHANGED pendingDelete

FIFOCache_Clear ==
    /\ list' = <<>>
    /\ cacheData' = {}
    /\ UNCHANGED pendingDelete

\* what FIFOCache.GetAll returns: `result`, a map made by the call
FIFOCache_GetAll ==
    [key \in {k \in cacheData : ~After(now, ItemOf(k).Timeout)} |-> ItemOf(key).Value]

\* what FIFOCache.Size returns
FIFOCache_Size == Len(list)

FIFOCache_cleanupExpiredKeys ==
    /\ list' = Sweep(list)
    /\ cacheData' = cacheData \ SweptKeys(list)
    /\ UNCHANGED pendingDelete

(* --------------------------- Cache interface -------------------------- *)

Cache_SetWithTTL(key, value, ttlSeconds) ==
    IF policy = "LRU"
    THEN LRUCache_SetWithTTL(key, value, ttlSeconds)
    ELSE FIFOCache_SetWithTTL(key, value, ttlSeconds)

\* Set(key, value): SetWithTTL(key, value, int(c.defaultTtl.Seconds()))
Cache_Set(key, value) == Cache_SetWithTTL(key, value, defaultTtl)

Cache_GetResult(key) ==
    IF policy = "LRU" THEN LRUCache_GetResult(key) ELSE FIFOCache_GetResult(key)

Cache_Get(key) ==
    IF policy = "LRU" THEN LRUCache_Get(key) ELSE FIFOCache_Get(key)

Cache_Delete(key) ==
    IF policy = "LRU" THEN LRUCache_Delete(key) ELSE FIFOCache_Delete(key)

Cache_Clear ==
    IF policy = "LRU" THEN LRUCache_Clear ELSE FIFOCache_Clear

Cache_GetAll == IF policy = "LRU" THEN LRUCache_GetAll ELSE FIFOCache_GetAll

Cache_Size == IF policy = "LRU" THEN LRUCache_Size ELSE FIFOCache_Size

\* no call holds c.mu
NoHolder ==
    [t |-> "none", op |-> "none", key |-> NoKey, value |-> Nil, ttl |-> 0, ran |-> FALSE]

\* the zero value of sync.RWMutex
Unlocked == [w |-> NoHolder, r |-> {}]

\* (mutation for C32: the default case picks the FIFO implementation)
NewCache_DefaultFIFO(type, capacity, ttl) ==
    /\ policy = (IF type = "LRU" THEN "LRU" ELSE "FIFO")
    /\ cfgType = type
    /\ mu = Unlocked
    /\ maxSize = capacity
    /\ defaultTtl = ttl
    /\ list = <<>>
    /\ cacheData = {}
    /\ pendingDelete = [k \in Keys |-> 0]
    /\ stopChan = "open"
    /\ reaper = "select"

\* NewCache: "FIFO" picks the FIFO implementation, "LRU" and the default case the LRU one
NewCache(type, capacity, ttl) ==
    /\ policy = (IF type = "FIFO" THEN "FIFO" ELSE "LRU")
    /\ cfgType = type
    /\ mu = Unlocked
    /\ maxSize = capacity
    /\ defaultTtl = ttl
    /\ list = <<>>
    /\ cacheData = {}
    /\ pendingDelete = [k \in Keys |-> 0]
    /\ stopChan = "open"
    /\ reaper = "select"

(* ------------------------ a store held as a value -------------------- *)

\* The methods of a store S = [list, cacheData, pendingDelete] that is not
\* the store of the variables above: the same code on another instance,
\* built with the same configuration.

ItemIn(l, k) == IF IndexOf(l, k) = 0 THEN NoItem ELSE l[IndexOf(l, k)]

\* S after S.SetWithTTL(key, value, ttlSeconds)
Store_SetWithTTL(S, key, value, ttlSeconds) ==
    LET i       == IndexOf(S.list, key)
        updated == Updated(S.list, i, value, ttlSeconds)
    IN  IF key \in S.cacheData
        THEN [S EXCEPT !.list = IF policy = "LRU" THEN ListMoveToBack(updated, i)
                                ELSE updated]
        ELSE [S EXCEPT !.list = Append(AfterEvict(S.list),
                                       NewItem(key, value, ttlSeconds)),
                       !.cacheData = (S.cacheData \ {Victim(S.list)}) \cup {key}]

\* what S.Get(key) returns
Store_GetResult(S, key) ==
    IF key \notin S.cacheData
    THEN [val |-> Nil, ok |-> FALSE]
    ELSE [val |-> ItemIn(S.list, key).Value,
          ok |-> ~After(now, ItemIn(S.list, key).Timeout)]

\* S after S.Get(key)
Store_Get(S, key) ==
    LET i == IndexOf(S.list, key)
    IN  IF key \notin S.cacheData THEN S
        ELSE IF After(now, ItemIn(S.list, key).Timeout)
             THEN IF policy = "LRU"
                  THEN [S EXCEPT !.list = ListRemove(S.list, i),
                                 !.cacheData = S.cacheData \ {key}]
                  ELSE [S EXCEPT !.pendingDelete[key] = @ + 1]
             ELSE IF policy = "LRU"
                  THEN [S EXCEPT !.list = ListMoveToBack(S.list, i)]
                  ELSE S

\* S after S.Delete(key)
Store_Delete(S, key) ==
    IF key \in S.cacheData
    THEN [S EXCEPT !.list = ListRemove(S.list, IndexOf(S.list, key)),
                   !.cacheData = S.cacheData \ {key}]
    ELSE S

\* S after one pass of the ticker branch of S's cleanupExpiredKeys
Store_cleanupExpiredKeys(S) ==
    [S EXCEPT !.list = Sweep(S.list),
              !.cacheData = S.cacheData \ SweptKeys(S.list)]

(* ------------------------- history of the store ----------------------- *)

SeqWithout(q, S) == SelectSeq(q, LAMBDA k : k \notin S)

\* a set of at most one key, as a sequence
AsSeq(S) == IF S = {} THEN <<>> ELSE <<CHOOSE k \in S : TRUE>>

HeadOr(q) == IF q = <<>> THEN NoKey ELSE Head(q)

NoOp ==
    [op |-> "none", ok |-> FALSE, val |-> Nil, case |-> "none", stored |-> Nil,
     victim |-> NoKey, oldest |-> NoKey, left |-> FALSE, swept |-> 0,
     tookLive |-> FALSE]

\* how the entry of key k stands before the operation: absent, expired or live
CaseOf(k) ==
    IF k \notin KeysOf(list) THEN "absent"
    ELSE IF now > ItemOf(k).Timeout THEN "expired" ELSE "live"

StoredOf(k) == IF k \in KeysOf(list) THEN ItemOf(k).Value ELSE Nil

\* Records the step just taken: op on key returned res; `promotes` says whether
\* the operation counts as a promotion of key (an insertion, an update by
\* Set/SetWithTTL, a successful Get, a successful Touch).  For a call on one
\* key, the record keeps how the key's entry stood before it; for a read, the
\* value stored and whether the key is left with an entry
\* when the call returns; for an insertion that removed a key, the key removed
\* and the key that was the oldest by the policy's own order; for a sweep,
\* expiredCount; for the steps that handle expiry (a read, a sweep, a
\* `go c.Delete`), whether an entry was removed that had not expired.
Track(op, key, res, promotes) ==
    LET removed == KeysOf(list) \ KeysOf(list')
        added   == KeysOf(list') \ KeysOf(list)
        P       == IF promotes /\ key \in KeysOf(list') THEN {key} ELSE {}
        isNew   == op = "SetWithTTL" /\ key \notin KeysOf(list)
        isRead  == op \in {"Get", "Touch"}
        onKey   == isRead \/ op \in {"SetWithTTL", "Delete"}
        expiry  == op \in {"Get", "Touch", "sweep", "goDelete"}
    IN  /\ promoted' = IF policy = "LRU"
                       THEN SeqWithout(promoted, removed \cup P) \o AsSeq(P)
                       ELSE promoted
        /\ inserted' = IF policy = "FIFO"
                       THEN SeqWithout(inserted, removed) \o AsSeq(added)
                       ELSE inserted
        /\ last' = [op |-> op, ok |-> res.ok, val |-> res.val,
                    case |-> IF onKey THEN CaseOf(key) ELSE "none",
                    stored |-> IF isRead THEN StoredOf(key) ELSE Nil,
                    victim |-> IF isNew /\ removed # {}
                               THEN CHOOSE k \in removed : TRUE ELSE NoKey,
                    oldest |-> IF isNew /\ removed # {}
                               THEN HeadOr(IF policy = "LRU" THEN promoted ELSE inserted)
                               ELSE NoKey,
                    left |-> isRead /\ (key \in KeysOf(list') \/ key \in cacheData'),
                    swept |-> IF op = "sweep" THEN Len(list) - Len(list') ELSE 0,
                    tookLive |-> /\ expiry
                                 /\ \E i \in DOMAIN list :
                                        /\ list[i].key \in removed
                                        /\ ~(now > list[i].Timeout)]

NoRes == [val |-> Nil, ok |-> FALSE]

\* progress through Set(a), Set(b), Get(a), Set(c) on a fresh store of capacity 2
ScriptStep(op, key, res) ==
    script' =
        IF script = 0 /\ op = "SetWithTTL" /\ key = "a" /\ maxSize = 2 THEN 1
        ELSE IF script = 1 /\ op = "SetWithTTL" /\ key = "b" THEN 2
        ELSE IF script = 2 /\ op = "Get" /\ key = "a" /\ (res.ok \/ policy = "FIFO") THEN 3
        ELSE IF script = 3 /\ op = "SetWithTTL" /\ key = "c" THEN 4
        ELSE -1

(* ------------------------ clients of the store ------------------------ *)

PendingTotal ==
    Cardinality({x \in Keys \X (1 .. MaxPending) : x[2] <= pendingDelete[x[1]]})

\* a Get that would start one more `go c.Delete(key)` waits at the bound
CanSpawn(key) ==
    (policy = "FIFO" /\ key \in cacheData /\ After(now, ItemOf(key).Timeout))
        => PendingTotal < MaxPending

Set(key, value) ==
    /\ Cache_Set(key, value)
    /\ Track("SetWithTTL", key, NoRes, TRUE)
    /\ ScriptStep("SetWithTTL", key, NoRes)
    /\ UNCHANGED <<policy, cfgType, maxSize, defaultTtl, mu, now, lifeVars, result, mlVars>>

SetWithTTL(key, value, ttlSeconds) ==
    /\ Cache_SetWithTTL(key, value, ttlSeconds)
    /\ Track("SetWithTTL", key, NoRes, TRUE)
    /\ ScriptStep("SetWithTTL", key, NoRes)
    /\ UNCHANGED <<policy, cfgType, maxSize, defaultTtl, mu, now, lifeVars, result, mlVars>>

Get(key) ==
    /\ CanSpawn(key)
    /\ Cache_Get(key)
    /\ Track("Get", key, Cache_GetResult(key), Cache_GetResult(key).ok)
    /\ ScriptStep("Get", key, Cache_GetResult(key))
    /\ UNCHANGED <<policy, cfgType, maxSize, defaultTtl, mu, now, lifeVars, result, mlVars>>

Delete(key) ==
    /\ Cache_Delete(key)
    /\ Track("Delete", key, NoRes, FALSE)
    /\ ScriptStep("Delete", key, NoRes)
    /\ UNCHANGED <<policy, cfgType, maxSize, defaultTtl, mu, now, lifeVars, result, mlVars>>

Clear ==
    /\ Cache_Clear
    /\ Track("Clear", NoKey, NoRes, FALSE)
    /\ ScriptStep("Clear", NoKey, NoRes)
    /\ UNCHANGED <<policy, cfgType, maxSize, defaultTtl, mu, now, lifeVars, result, mlVars>>

\* Touch exists on *LRUCache only
Touch(key) ==
    /\ policy = "LRU"
    /\ LRUCache_Touch(key)
    /\ Track("Touch", key, [val |-> Nil, ok |-> LRUCache_TouchResult(key)],
             LRUCache_TouchResult(key))
    /\ ScriptStep("Touch", key, NoRes)
    /\ UNCHANGED <<policy, cfgType, maxSize, defaultTtl, mu, now, lifeVars, result, mlVars>>

\* GetAll holds the read lock and changes nothing in the store; its caller
\* gets the map the call made
GetAll ==
    /\ result' = Cache_GetAll
    /\ UNCHANGED <<list, cacheData, pendingDelete>>
    /\ Track("GetAll", NoKey, NoRes, FALSE)
    /\ ScriptStep("GetAll", NoKey, NoRes)
    /\ UNCHANGED <<policy, cfgType, maxSize, defaultTtl, mu, now, lifeVars, mlVars>>

\* Size holds the read lock and changes nothing; it returns Cache_Size
Size ==
    /\ UNCHANGED <<list, cacheData, pendingDelete, result>>
    /\ Track("Size", NoKey, NoRes, FALSE)
    /\ ScriptStep("Size", NoKey, NoRes)
    /\ UNCHANGED <<policy, cfgType, maxSize, defaultTtl, mu, now, lifeVars, mlVars>>

\* the caller of GetAll changes the map it was given: `delete(result, key)`
Result_delete(key) ==
    /\ key \in DOMAIN result
    /\ result' = [k \in DOMAIN result \ {key} |-> result[k]]
    /\ UNCHANGED <<list, cacheData, pendingDelete>>
    /\ Track("delete(result)", NoKey, NoRes, FALSE)
    /\ ScriptStep("delete(result)", NoKey, NoRes)
    /\ UNCHANGED <<policy, cfgType, maxSize, defaultTtl, mu, now, lifeVars, mlVars>>

\* the reaper goroutine takes the ticker branch once: the tick is received
\* and the sweep made, as one step
cleanupExpiredKeys ==
    /\ reaper = "select"
    /\ IF policy = "LRU" THEN LRUCache_cleanupExpiredKeys ELSE FIFOCache_cleanupExpiredKeys
    /\ Track("sweep", NoKey, NoRes, FALSE)
    /\ ScriptStep("sweep", NoKey, NoRes)
    /\ UNCHANGED <<policy, cfgType, maxSize, defaultTtl, mu, now, lifeVars, result, mlVars>>

\* a goroutine started by `go c.Delete(key)` in FIFOCache.Get runs
FIFOCache_goDelete(key) ==
    /\ pendingDelete[key] > 0
    /\ IF key \in cacheData
       THEN /\ list' = ListRemove(list, IndexOf(list, key))
            /\ cacheData' = cacheData \ {key}
       ELSE UNCHANGED <<list, cacheData>>
    /\ pendingDelete' = [pendingDelete EXCEPT ![key] = @ - 1]
    /\ Track("goDelete", key, NoRes, FALSE)
    /\ ScriptStep("goDelete", key, NoRes)
    /\ UNCHANGED <<policy, cfgType, maxSize, defaultTtl, mu, now, lifeVars, result, mlVars>>

(* ----------------------- the life of the reaper ---------------------- *)

\* Stop: close(c.stopChan).  Closing a closed channel panics ("close of
\* closed channel"): the call returns normally (ok) only on an open channel.
\* Stop takes no lock and waits for nothing.
Stop ==
    /\ stopChan' = "closed"
    /\ UNCHANGED <<list, cacheData, pendingDelete>>
    /\ Track("Stop", NoKey, [val |-> Nil, ok |-> stopChan = "open"], FALSE)
    /\ ScriptStep("Stop", NoKey, NoRes)
    /\ UNCHANGED <<policy, cfgType, maxSize, defaultTtl, mu, now, reaper, result, mlVars>>

\* `case <-ticker.C`: a tick is ready and the select takes it.  The select
\* picks among its ready cases at random, so a pending tick may be taken
\* although stopChan is closed.
cleanupExpiredKeys_tick ==
    /\ reaper = "select"
    /\ reaper' = "sweep"
    /\ last' = NoOp
    /\ UNCHANGED <<policy, cfgType, maxSize, defaultTtl, mu, list, cacheData, now, pendingDelete,
                   stopChan, promoted, inserted, script, result, mlVars>>

\* lines 71-92: the body of the ticker branch, under c.mu, and back to the select
cleanupExpiredKeys_sweep ==
    /\ reaper = "sweep"
    /\ reaper' = "select"
    /\ IF policy = "LRU" THEN LRUCache_cleanupExpiredKeys ELSE FIFOCache_cleanupExpiredKeys
    /\ Track("sweep", NoKey, NoRes, FALSE)
    /\ ScriptStep("sweep", NoKey, NoRes)
    /\ UNCHANGED <<policy, cfgType, maxSize, defaultTtl, mu, now, stopChan, result, mlVars>>

\* (mutation for C17: the stop branch goes round the loop again)
cleanupExpiredKeys_stop_Loops ==
    /\ reaper = "select"
    /\ stopChan = "closed"
    /\ reaper' = "select"
    /\ last' = last
    /\ UNCHANGED <<policy, cfgType, maxSize, defaultTtl, mu, list, cacheData, now, pendingDelete,
                   stopChan, promoted, inserted, script, result, mlVars>>

\* `case <-c.stopChan: return`: the goroutine ends
cleanupExpiredKeys_stop ==
    /\ reaper = "select"
    /\ stopChan = "closed"
    /\ reaper' = "exited"
    /\ last' = NoOp
    /\ UNCHANGED <<policy, cfgType, maxSize, defaultTtl, mu, list, cacheData, now, pendingDelete,
                   stopChan, promoted, inserted, script, result, mlVars>>

\* time passes
Tick ==
    /\ now < MaxTime
    /\ now' = now + 1
    /\ last' = NoOp
    /\ UNCHANGED <<policy, cfgType, maxSize, defaultTtl, mu, list, cacheData, pendingDelete,
                   lifeVars, promoted, inserted, script, result, mlVars>>

(* ------------------------- the store's lock --------------------------- *)

\* the goroutines that call the store: two clients, the reaper, and the one
\* started by `go c.Delete(key)`
ClientThreads == {"g1", "g2"}

LockKeys == {"a", "b"}

LockValues == {"i1"}

LockTTLs == {0, 1}

\* the methods that take a key, and those that take none
KeyOps == IF policy = "LRU" THEN {"Get", "Delete", "Touch"} ELSE {"Get", "Delete"}

PlainOps ==
    IF policy = "LRU"
    THEN {"Clear", "GetAll", "Size", "Keys", "Values", "GetLRU", "GetMRU"}
    ELSE {"Clear", "GetAll", "Size", "Keys", "Values"}

\* the methods that only read, whatever mode they lock in
ReadOnlyOps == {"GetAll", "Size", "Keys", "Values", "GetLRU", "GetMRU"}

\* the calls a client can make
ClientCalls ==
    {[op |-> "SetWithTTL", key |-> k, value |-> v, ttl |-> l] :
        k \in LockKeys, v \in LockValues, l \in LockTTLs}
    \cup {[op |-> o, key |-> k, value |-> Nil, ttl |-> 0] : o \in KeyOps, k \in LockKeys}
    \cup {[op |-> o, key |-> NoKey, value |-> Nil, ttl |-> 0] : o \in PlainOps}

\* (mutation for C34: LRUCache.Get locks as FIFOCache.Get does)
LockMode_GetShared(op) ==
    IF op \in ReadOnlyOps \/ op = "Get" THEN "RLock" ELSE "Lock"

\* how each method takes c.mu: c.mu.RLock() in the methods that only read
\* and in FIFOCache.Get, c.mu.Lock() in the others
LockMode(op) ==
    IF op \in ReadOnlyOps \/ (op = "Get" /\ policy = "FIFO") THEN "RLock" ELSE "Lock"

Holders == (IF mu.w = NoHolder THEN {} ELSE {mu.w}) \cup mu.r

Holding(t) == \E h \in Holders : h.t = t

\* goroutine t enters the method of call c: its first statement, c.mu.Lock()
\* or c.mu.RLock().  sync.RWMutex: Lock returns when no call holds the mutex,
\* RLock when no call holds it for writing.
Acquire(t, c) ==
    /\ ~Holding(t)
    /\ mu.w = NoHolder
    /\ LET h == [t |-> t, op |-> c.op, key |-> c.key, value |-> c.value, ttl |-> c.ttl,
                 ran |-> FALSE]
       IN  IF LockMode(c.op) = "Lock"
           THEN mu.r = {} /\ mu' = [mu EXCEPT !.w = h]
           ELSE mu' = [mu EXCEPT !.r = @ \cup {h}]
    /\ UNCHANGED <<policy, cfgType, maxSize, defaultTtl, list, cacheData, now, pendingDelete,
                   result, lifeVars, ghostVars, mlVars>>

\* the reaper takes the ticker branch: c.mu.Lock()
cleanupExpiredKeys_Lock ==
    /\ reaper = "select"
    /\ Acquire("reaper", [op |-> "sweep", key |-> NoKey, value |-> Nil, ttl |-> 0])

\* the goroutine started by `go c.Delete(key)` enters Delete: c.mu.Lock()
FIFOCache_goDelete_Lock(key) ==
    /\ pendingDelete[key] > 0
    /\ Acquire("go", [op |-> "goDelete", key |-> key, value |-> Nil, ttl |-> 0])

\* what the body of the method does to the store
Body(h) ==
    CASE h.op = "SetWithTTL" -> Cache_SetWithTTL(h.key, h.value, h.ttl)
      [] h.op = "Get" -> CanSpawn(h.key) /\ Cache_Get(h.key)
      [] h.op = "Delete" -> Cache_Delete(h.key)
      [] h.op = "Touch" -> LRUCache_Touch(h.key)
      [] h.op = "Clear" -> Cache_Clear
      [] h.op = "sweep" -> IF policy = "LRU" THEN LRUCache_cleanupExpiredKeys
                                              ELSE FIFOCache_cleanupExpiredKeys
      [] h.op = "goDelete" ->
             /\ IF h.key \in cacheData
                THEN /\ list' = ListRemove(list, IndexOf(list, h.key))
                     /\ cacheData' = cacheData \ {h.key}
                ELSE UNCHANGED <<list, cacheData>>
             /\ pendingDelete' = [pendingDelete EXCEPT ![h.key] = @ - 1]
      [] OTHER -> UNCHANGED <<list, cacheData, pendingDelete>>

BodyResult(h) ==
    CASE h.op = "Get" -> Cache_GetResult(h.key)
      [] h.op = "Touch" -> [val |-> Nil, ok |-> LRUCache_TouchResult(h.key)]
      [] OTHER -> NoRes

\* the body of a method runs in the goroutine that holds c.mu for it
Run(t) ==
    \E h \in Holders :
        /\ h.t = t
        /\ ~h.ran
        /\ Body(h)
        /\ result' = IF h.op = "GetAll" THEN Cache_GetAll ELSE result
        /\ Track(h.op, h.key, BodyResult(h), h.op = "SetWithTTL" \/ BodyResult(h).ok)
        /\ ScriptStep(h.op, h.key, BodyResult(h))
        /\ mu' = IF mu.w = h
                 THEN [mu EXCEPT !.w.ran = TRUE]
                 ELSE [mu EXCEPT !.r = (@ \ {h}) \cup {[h EXCEPT !.ran = TRUE]}]
        /\ UNCHANGED <<policy, cfgType, maxSize, defaultTtl, now, lifeVars, mlVars>>

\* the method returns: the deferred c.mu.Unlock() or c.mu.RUnlock()
Release(t) ==
    \E h \in Holders :
        /\ h.t = t
        /\ h.ran
        /\ mu' = IF mu.w = h THEN [mu EXCEPT !.w = NoHolder] ELSE [mu EXCEPT !.r = @ \ {h}]
        /\ UNCHANGED <<policy, cfgType, maxSize, defaultTtl, list, cacheData, now,
                       pendingDelete, result, lifeVars, ghostVars, mlVars>>

(* ----------------------- GetWithMultiLevelCache ----------------------- *)

\* concurrent callers of GetWithMultiLevelCache, each making one call
NCallers == 2

Callers == 1 .. NCallers

\* the keys the callers ask for
MLKeys == {"a"}

\* capacities of the tier-1 store under the multi-level Get
MLCapacities == {1}

\* memTTL arguments
MemTTLs == {1}

\* redisTTL arguments
RedisTTLs == {2}

\* a store as NewCache returns it, as a value
NoStore == [list |-> <<>>, cacheData |-> {}, pendingDelete |-> [k \in Keys |-> 0]]

NoErr == "nil"

\* errors fetchAPI may return
Errors == {"e1", "e2"}

\* redis.Nil: the key is not in tier 2
Missing == "redis.Nil"

\* payloads tier 2 may hold at the start: empty, the JSON text 1, not JSON
Payloads == {"", "1", "junk"}

\* json.Marshal of a value: the int 1 and the float64 1 both give the text 1
Marshal(v) == IF v \in {"i1", "f1"} THEN "1" ELSE "null"

\* json.Unmarshal into an `any`: a JSON number decodes to a float64
Unmarshal(payload) ==
    IF payload = "1" THEN [val |-> "f1", err |-> NoErr]
    ELSE IF payload = "null" THEN [val |-> Nil, err |-> NoErr]
    ELSE [val |-> Nil, err |-> "json: syntax error"]

\* what fetchAPI may return
FetchResults ==
    [val : Values, err : {NoErr}] \cup [val : {Nil}, err : Errors]

NoResult == [val |-> Nil, err |-> NoErr]

NoArgs == [key |-> NoKey, value |-> Nil, ttl |-> 0]

\* no redisClient.Set made
NoArgs2 == [key |-> NoKey, data |-> "", ttl |-> 0]

\* per collaborator call of fn, the context it is given: "none" while the
\* call has not been made, "redisTimeout" and "apiTimeout" for a context
\* made by context.WithTimeout(ctx, ...), "ctx" for the caller's own
NoContexts == [get |-> "none", fetch |-> "none", set |-> "none"]

NoCall ==
    [key |-> NoKey, join |-> 0, redisVal |-> "", val |-> Nil, err |-> NoErr,
     fetched |-> NoResult, set1 |-> NoArgs, set2 |-> NoArgs2, under |-> NoContexts]

\* what NewRedisClient returns: the client when the Ping succeeds, nil when
\* it fails
Connected == "client"

NilClient == Nil

\* ctx.Err() of a canceled context
Canceled == "context canceled"

\* what fetchAPI may return under the context of caller p: a fetchAPI that
\* is given a canceled context returns its error
FetchResultsUnder(p) ==
    IF ctx[p] = "canceled" THEN {[val |-> Nil, err |-> Canceled]} ELSE FetchResults

\* history: a collaborator call of caller p is made under a canceled context
Cut(p) == IF ctx[p] = "canceled" THEN {"cut"} ELSE {}

\* the stores a caller may pass as memCache
Stores == {1, 2}

\* a lookup of store 2 that would start one more `go c.Delete(key)` waits at
\* the bound
CanSpawn2(key) ==
    (policy = "FIFO" /\ ~Store_GetResult(memCache2, key).ok /\ key \in memCache2.cacheData)
        => \A k \in Keys : memCache2.pendingDelete[k] < MaxPending

MemCache_CanSpawn(p, key) ==
    IF memCacheOf[p] = 1 THEN CanSpawn(key) ELSE CanSpawn2(key)

\* memCache.Get(key) of caller p
MemCache_Get(p, key) ==
    IF memCacheOf[p] = 1
    THEN Cache_Get(key) /\ UNCHANGED memCache2
    ELSE /\ memCache2' = Store_Get(memCache2, key)
         /\ UNCHANGED <<list, cacheData, pendingDelete>>

MemCache_GetResult(p, key) ==
    IF memCacheOf[p] = 1 THEN Cache_GetResult(key) ELSE Store_GetResult(memCache2, key)

\* memCache.SetWithTTL(key, value, ttl) of caller p
MemCache_SetWithTTL(p, key, value, ttl) ==
    IF memCacheOf[p] = 1
    THEN Cache_SetWithTTL(key, value, ttl) /\ UNCHANGED memCache2
    ELSE /\ memCache2' = Store_SetWithTTL(memCache2, key, value, ttl)
         /\ UNCHANGED <<list, cacheData, pendingDelete>>

\* history: how the entry of key stands in the store caller p passes
T1Case(p, key) ==
    IF memCacheOf[p] = 1 THEN CaseOf(key)
    ELSE IF key \notin memCache2.cacheData THEN "absent"
    ELSE IF Store_GetResult(memCache2, key).ok THEN "live" ELSE "expired"

\* history: what a tier-1 lookup of key by caller p did to its store
T1Change(p, key) ==
    LET old  == IF memCacheOf[p] = 1 THEN list ELSE memCache2.list
        new  == IF memCacheOf[p] = 1 THEN list' ELSE memCache2'.list
        oldK == IF memCacheOf[p] = 1 THEN cacheData ELSE memCache2.cacheData
        newK == IF memCacheOf[p] = 1 THEN cacheData' ELSE memCache2'.cacheData
    IN  IF new = old /\ newK = oldK THEN {}
        ELSE IF /\ T1Case(p, key) = "expired"
                /\ new = SelectSeq(old, LAMBDA item : item.key # key)
                /\ newK = oldK \ {key}
             THEN {"lazy"}
             ELSE {"changed"}

\* history: the lookup of key by caller p misses although a call has already
\* written key to the same store
Lost(p, key) ==
    IF \E q \in Callers : /\ call[q].key = key /\ "set1" \in did[q]
                          /\ memCacheOf[q] = memCacheOf[p]
    THEN {"lost"} ELSE {}

\* (mutation for C13: a hit on the first lookup still goes through Do)
FastPath_ThroughDo(p, key) ==
    /\ pc[p] = "idle"
    /\ p > 1 => pc[p - 1] # "idle"
    /\ MemCache_CanSpawn(p, key)
    /\ MemCache_Get(p, key)
    /\ call' = [call EXCEPT ![p].key = key]
    /\ overlap' = (overlap /\ \A q \in Callers : pc[q] # "done")
    /\ pc' = [pc EXCEPT ![p] = "do"]
    /\ returned' = returned
    /\ did' = [did EXCEPT ![p] = @ \cup T1Change(p, key)
                                   \cup (IF MemCache_GetResult(p, key).ok
                                         THEN {"t1hit"} ELSE Lost(p, key))
                                   \cup (IF T1Case(p, key) = "live" THEN {"live"} ELSE {})]
    /\ UNCHANGED <<policy, cfgType, maxSize, defaultTtl, mu, now, lifeVars, result, ghostVars,
                   mlArgs, syncToRedis, redis, m, fetchCalls, redis0>>

\* line 47: the call starts with the fast path, `memCache.Get(key)`.  Callers
\* are interchangeable, so they start in the order of their numbers.
FastPath(p, key) ==
    /\ pc[p] = "idle"
    /\ p > 1 => pc[p - 1] # "idle"
    /\ MemCache_CanSpawn(p, key)
    /\ MemCache_Get(p, key)
    /\ call' = [call EXCEPT ![p].key = key]
    /\ overlap' = (overlap /\ \A q \in Callers : pc[q] # "done")
    /\ IF MemCache_GetResult(p, key).ok
       THEN /\ pc' = [pc EXCEPT ![p] = "done"]
            /\ returned' = [returned EXCEPT
                               ![p] = [val |-> MemCache_GetResult(p, key).val, err |-> NoErr]]
            /\ did' = [did EXCEPT ![p] = @ \cup {"t1hit"} \cup T1Change(p, key)
                                           \cup (IF T1Case(p, key) = "live" THEN {"live"} ELSE {})]
       ELSE /\ pc' = [pc EXCEPT ![p] = "do"]
            /\ returned' = returned
            /\ did' = [did EXCEPT ![p] = @ \cup T1Change(p, key) \cup Lost(p, key)
                                           \cup (IF T1Case(p, key) = "live" THEN {"live"} ELSE {})]
    /\ UNCHANGED <<policy, cfgType, maxSize, defaultTtl, mu, now, lifeVars, result, ghostVars,
                   mlArgs, syncToRedis, redis, m, fetchCalls, redis0>>

\* (mutation for C2: no call ever joins another)
DoEnter_NoJoin(p) ==
    /\ pc[p] = "do"
    /\ m' = [m EXCEPT ![call[p].key] = p]
    /\ pc' = [pc EXCEPT ![p] = "recheck"]
    /\ did' = [did EXCEPT ![p] = @ \cup {"exec"}]
    /\ call' = call
    /\ UNCHANGED <<storeVars, ghostVars, mlArgs, memCache2, syncToRedis, redis, returned,
                   fetchCalls, redis0, overlap>>

\* line 52: sfGroup.Do(key, fn) under the group's mutex: join the call in
\* flight for key, or register a new one and run fn
DoEnter(p) ==
    /\ pc[p] = "do"
    /\ IF m[call[p].key] # 0
       THEN /\ call' = [call EXCEPT ![p].join = m[call[p].key]]
            /\ pc' = [pc EXCEPT ![p] = "wait"]
            /\ did' = [did EXCEPT ![p] = @ \cup {"join"}]
            /\ m' = m
       ELSE /\ m' = [m EXCEPT ![call[p].key] = p]
            /\ pc' = [pc EXCEPT ![p] = "recheck"]
            /\ did' = [did EXCEPT ![p] = @ \cup {"exec"}]
            /\ call' = call
    /\ UNCHANGED <<storeVars, ghostVars, mlArgs, memCache2, syncToRedis, redis, returned,
                   fetchCalls, redis0, overlap>>

\* lines 54-56: the second look at tier 1, inside fn
Recheck(p) ==
    /\ pc[p] = "recheck"
    /\ MemCache_CanSpawn(p, call[p].key)
    /\ MemCache_Get(p, call[p].key)
    /\ IF MemCache_GetResult(p, call[p].key).ok
       THEN /\ pc' = [pc EXCEPT ![p] = "finish"]
            /\ call' = [call EXCEPT ![p].val = MemCache_GetResult(p, call[p].key).val,
                                    ![p].err = NoErr]
            /\ did' = [did EXCEPT ![p] = @ \cup {"rehit"} \cup T1Change(p, call[p].key)]
       ELSE /\ pc' = [pc EXCEPT ![p] = "redis"]
            /\ call' = call
            /\ did' = [did EXCEPT ![p] = @ \cup T1Change(p, call[p].key)
                                           \cup Lost(p, call[p].key)]
    /\ UNCHANGED <<policy, cfgType, maxSize, defaultTtl, mu, now, lifeVars, result, ghostVars,
                   mlArgs, syncToRedis, redis, m, returned, fetchCalls, redis0, overlap>>

\* (mutation for C7 and C9: a tier-2 read failure is returned as the call's error)
RedisGet_FailsHard(p) ==
    /\ pc[p] = "redis"
    /\ redisClient # NilClient
    /\ \E failed \in {f \in BOOLEAN : ctx[p] = "canceled" => f} :
           LET absent   == failed \/ redis[call[p].key] = Missing
               redisVal == IF absent THEN "" ELSE redis[call[p].key]
               decoded  == Unmarshal(redisVal)
           IN  IF ~absent /\ redisVal # "" /\ decoded.err = NoErr
               THEN /\ pc' = [pc EXCEPT ![p] = "finish"]
                    /\ call' = [call EXCEPT ![p].redisVal = redisVal,
                                            ![p].val = decoded.val,
                                            ![p].under.get = "redisTimeout"]
                    /\ did' = [did EXCEPT ![p] = @ \cup {"t2read", "t2hit"}]
               ELSE /\ pc' = [pc EXCEPT ![p] = "finish"]
                    /\ call' = [call EXCEPT ![p].redisVal = redisVal,
                                            ![p].err = "redis: failed",
                                            ![p].under.get = "redisTimeout"]
                    /\ did' = [did EXCEPT ![p] = @ \cup {"t2read", "t2fail"} \cup Cut(p)]
    /\ UNCHANGED <<storeVars, ghostVars, mlArgs, memCache2, syncToRedis, redis, m, returned,
                   fetchCalls, redis0, overlap>>

\* lines 59-65: redisClient.Get under redisTimeout, then json.Unmarshal.  The
\* read may fail on its own (timeout, transport error): `failed`.
RedisGet(p) ==
    /\ pc[p] = "redis"
    /\ redisClient # NilClient
    /\ \E failed \in {f \in BOOLEAN : ctx[p] = "canceled" => f} :
           LET absent   == failed \/ redis[call[p].key] = Missing
               redisVal == IF absent THEN "" ELSE redis[call[p].key]
               decoded  == Unmarshal(redisVal)
           IN  IF ~absent /\ redisVal # "" /\ decoded.err = NoErr
               THEN /\ pc' = [pc EXCEPT ![p] = "t2set"]
                    /\ call' = [call EXCEPT ![p].redisVal = redisVal,
                                            ![p].val = decoded.val,
                                            ![p].under.get = "redisTimeout"]
                    /\ did' = [did EXCEPT ![p] = @ \cup {"t2read", "t2hit"}]
               ELSE /\ pc' = [pc EXCEPT ![p] = "fetch"]
                    /\ call' = [call EXCEPT ![p].redisVal = redisVal,
                                            ![p].under.get = "redisTimeout"]
                    /\ did' = [did EXCEPT ![p] = @ \cup {"t2read", "t2fail"} \cup Cut(p)]
    /\ UNCHANGED <<storeVars, ghostVars, mlArgs, memCache2, syncToRedis, redis, m, returned,
                   fetchCalls, redis0, overlap>>

\* line 61 with a nil redisClient: Get is a method of a field of the struct
\* the pointer points to, so the call dereferences nil and panics.  The group
\* forgets the key and passes the panic on to the executing caller.
RedisGet_nil(p) ==
    /\ pc[p] = "redis"
    /\ redisClient = NilClient
    /\ m' = [m EXCEPT ![call[p].key] = 0]
    /\ pc' = [pc EXCEPT ![p] = "panic"]
    /\ did' = [did EXCEPT ![p] = @ \cup {"panic"}]
    /\ UNCHANGED <<storeVars, ghostVars, mlArgs, memCache2, syncToRedis, redis, call,
                   returned, fetchCalls, redis0, overlap>>

\* (mutation for C7 and C33: the decoded value is returned but not kept in tier 1)
RedisHit_NoWrite(p) ==
    /\ pc[p] = "t2set"
    /\ pc' = [pc EXCEPT ![p] = "finish"]
    /\ UNCHANGED <<storeVars, ghostVars, mlArgs, memCache2, syncToRedis, redis, m, call,
                   returned, fetchCalls, did, redis0, overlap>>

\* lines 67-68: the decoded value goes to tier 1, and fn returns it
RedisHit(p) ==
    /\ pc[p] = "t2set"
    /\ MemCache_SetWithTTL(p, call[p].key, call[p].val, memTTL)
    /\ call' = [call EXCEPT ![p].set1 =
                   [key |-> call[p].key, value |-> call[p].val, ttl |-> memTTL]]
    /\ did' = [did EXCEPT ![p] = @ \cup {"set1"}]
    /\ pc' = [pc EXCEPT ![p] = "finish"]
    /\ UNCHANGED <<policy, cfgType, maxSize, defaultTtl, mu, now, lifeVars, result, ghostVars,
                   mlArgs, syncToRedis, redis, m, returned, fetchCalls, redis0, overlap>>

\* (mutation for C8: a failed fetch returns the zero result with no error)
Fetch_SwallowsError(p) ==
    /\ pc[p] = "fetch"
    /\ fetchCalls' = [fetchCalls EXCEPT ![call[p].key] = @ + 1]
    /\ \E r \in FetchResultsUnder(p) :
           /\ call' = [call EXCEPT ![p].fetched = r, ![p].val = r.val,
                                   ![p].under.fetch = "apiTimeout"]
           /\ IF r.err # NoErr
              THEN /\ pc' = [pc EXCEPT ![p] = "finish"]
                   /\ did' = [did EXCEPT ![p] = @ \cup {"fetch", "fetchErr"} \cup Cut(p)]
              ELSE /\ pc' = [pc EXCEPT ![p] = "populate"]
                   /\ did' = [did EXCEPT ![p] = @ \cup {"fetch"}]
    /\ UNCHANGED <<storeVars, ghostVars, mlArgs, memCache2, syncToRedis, redis, m, returned,
                   redis0, overlap>>

\* (mutation for C30: the context of the execution is canceled with that of
\* any caller waiting for it)
Fetch_WaiterCancels(p) ==
    /\ pc[p] = "fetch"
    /\ fetchCalls' = [fetchCalls EXCEPT ![call[p].key] = @ + 1]
    /\ LET cut == \E q \in Callers :
                      /\ q = p \/ (pc[q] = "wait" /\ call[q].join = p)
                      /\ ctx[q] = "canceled"
       IN  \E r \in (IF cut THEN {[val |-> Nil, err |-> Canceled]} ELSE FetchResults) :
               /\ call' = [call EXCEPT ![p].fetched = r, ![p].val = r.val, ![p].err = r.err,
                                       ![p].under.fetch = "apiTimeout"]
               /\ IF r.err # NoErr
                  THEN /\ pc' = [pc EXCEPT ![p] = "finish"]
                       /\ did' = [did EXCEPT ![p] = @ \cup {"fetch", "fetchErr"}
                                                      \cup (IF cut THEN {"cut"} ELSE {})]
                  ELSE /\ pc' = [pc EXCEPT ![p] = "populate"]
                       /\ did' = [did EXCEPT ![p] = @ \cup {"fetch"}]
    /\ UNCHANGED <<storeVars, ghostVars, mlArgs, memCache2, syncToRedis, redis, m, returned,
                   redis0, overlap>>

\* (mutation for C35: fetchAPI is given a context of its own, not one derived
\* from ctx)
Fetch_OwnContext(p) ==
    /\ pc[p] = "fetch"
    /\ fetchCalls' = [fetchCalls EXCEPT ![call[p].key] = @ + 1]
    /\ \E r \in FetchResults :
           /\ call' = [call EXCEPT ![p].fetched = r, ![p].val = r.val, ![p].err = r.err,
                                   ![p].under.fetch = "apiTimeout"]
           /\ IF r.err # NoErr
              THEN /\ pc' = [pc EXCEPT ![p] = "finish"]
                   /\ did' = [did EXCEPT ![p] = @ \cup {"fetch", "fetchErr"}]
              ELSE /\ pc' = [pc EXCEPT ![p] = "populate"]
                   /\ did' = [did EXCEPT ![p] = @ \cup {"fetch"}]
    /\ UNCHANGED <<storeVars, ghostVars, mlArgs, memCache2, syncToRedis, redis, m, returned,
                   redis0, overlap>>

\* lines 73-78: fetchAPI under apiTimeout; on error fn returns (nil, err)
Fetch(p) ==
    /\ pc[p] = "fetch"
    /\ fetchCalls' = [fetchCalls EXCEPT ![call[p].key] = @ + 1]
    /\ \E r \in FetchResultsUnder(p) :
           /\ call' = [call EXCEPT ![p].fetched = r, ![p].val = r.val, ![p].err = r.err,
                                   ![p].under.fetch = "apiTimeout"]
           /\ IF r.err # NoErr
              THEN /\ pc' = [pc EXCEPT ![p] = "finish"]
                   /\ did' = [did EXCEPT ![p] = @ \cup {"fetch", "fetchErr"} \cup Cut(p)]
              ELSE /\ pc' = [pc EXCEPT ![p] = "populate"]
                   /\ did' = [did EXCEPT ![p] = @ \cup {"fetch"}]
    /\ UNCHANGED <<storeVars, ghostVars, mlArgs, memCache2, syncToRedis, redis, m, returned,
                   redis0, overlap>>

\* (mutation for C14: the write-back is made whatever syncToRedis says)
Populate_AlwaysSyncs(p) ==
    /\ pc[p] = "populate"
    /\ MemCache_SetWithTTL(p, call[p].key, call[p].val, memTTL)
    /\ call' = [call EXCEPT ![p].set1 =
                   [key |-> call[p].key, value |-> call[p].val, ttl |-> memTTL]]
    /\ did' = [did EXCEPT ![p] = @ \cup {"set1"}]
    /\ pc' = [pc EXCEPT ![p] = "writeback"]
    /\ UNCHANGED <<policy, cfgType, maxSize, defaultTtl, mu, now, lifeVars, result, ghostVars,
                   mlArgs, syncToRedis, redis, m, returned, fetchCalls, redis0, overlap>>

\* line 81: the fetched value goes to tier 1
Populate(p) ==
    /\ pc[p] = "populate"
    /\ MemCache_SetWithTTL(p, call[p].key, call[p].val, memTTL)
    /\ call' = [call EXCEPT ![p].set1 =
                   [key |-> call[p].key, value |-> call[p].val, ttl |-> memTTL]]
    /\ did' = [did EXCEPT ![p] = @ \cup {"set1"}]
    /\ pc' = [pc EXCEPT ![p] = IF syncToRedis /\ redisClient # NilClient
                               THEN "writeback" ELSE "finish"]
    /\ UNCHANGED <<policy, cfgType, maxSize, defaultTtl, mu, now, lifeVars, result, ghostVars,
                   mlArgs, syncToRedis, redis, m, returned, fetchCalls, redis0, overlap>>

\* lines 84-88: json.Marshal and redisClient.Set, which is given the caller's
\* ctx as it is; the write may fail (`stored`), and fails under a canceled ctx
WriteBack(p) ==
    /\ pc[p] = "writeback"
    /\ \E stored \in {b \in BOOLEAN : ctx[p] = "canceled" => ~b} :
           redis' = IF stored
                    THEN [redis EXCEPT ![call[p].key] = Marshal(call[p].val)]
                    ELSE redis
    /\ call' = [call EXCEPT ![p].set2 =
                   [key |-> call[p].key, data |-> Marshal(call[p].val), ttl |-> redisTTL],
                            ![p].under.set = "ctx"]
    /\ did' = [did EXCEPT ![p] = @ \cup {"set2"} \cup Cut(p)]
    /\ pc' = [pc EXCEPT ![p] = "finish"]
    /\ UNCHANGED <<storeVars, ghostVars, mlArgs, memCache2, syncToRedis, m, returned,
                   fetchCalls, redis0, overlap>>

\* (mutation for C12: the group keeps the record of a finished call)
Finish_KeepsRecord(p) ==
    /\ pc[p] = "finish"
    /\ returned' = [returned EXCEPT ![p] = [val |-> call[p].val, err |-> call[p].err]]
    /\ pc' = [pc EXCEPT ![p] = "done"]
    /\ UNCHANGED <<storeVars, ghostVars, mlArgs, memCache2, syncToRedis, redis, m, call,
                   fetchCalls, did, redis0, overlap>>

\* fn has returned: the group forgets the key, and Do and line 92 return
\* fn's (value, error) to the executing caller
Finish(p) ==
    /\ pc[p] = "finish"
    /\ m' = [m EXCEPT ![call[p].key] = 0]
    /\ returned' = [returned EXCEPT ![p] = [val |-> call[p].val, err |-> call[p].err]]
    /\ pc' = [pc EXCEPT ![p] = "done"]
    /\ UNCHANGED <<storeVars, ghostVars, mlArgs, memCache2, syncToRedis, redis, call,
                   fetchCalls, did, redis0, overlap>>

\* (mutation for C10: a waiter gets the value but not the error)
WaitReturn_DropsError(p) ==
    /\ pc[p] = "wait"
    /\ pc[call[p].join] = "done"
    /\ returned' = [returned EXCEPT ![p] = [val |-> returned[call[p].join].val, err |-> NoErr]]
    /\ pc' = [pc EXCEPT ![p] = "done"]
    /\ UNCHANGED <<storeVars, ghostVars, mlArgs, memCache2, syncToRedis, redis, m, call,
                   fetchCalls, did, redis0, overlap>>

\* (mutation for C36: the callers that joined are woken only by a call that
\* ended without error)
WaitReturn_OnSuccess(p) ==
    /\ pc[p] = "wait"
    /\ pc[call[p].join] = "done"
    /\ returned[call[p].join].err = NoErr
    /\ returned' = [returned EXCEPT ![p] = returned[call[p].join]]
    /\ pc' = [pc EXCEPT ![p] = "done"]
    /\ UNCHANGED <<storeVars, ghostVars, mlArgs, memCache2, syncToRedis, redis, m, call,
                   fetchCalls, did, redis0, overlap>>

\* a caller that joined: Do returns the call's (value, error) once the call
\* is done, and line 92 returns them
WaitReturn(p) ==
    /\ pc[p] = "wait"
    /\ pc[call[p].join] = "done"
    /\ returned' = [returned EXCEPT ![p] = returned[call[p].join]]
    /\ pc' = [pc EXCEPT ![p] = "done"]
    /\ UNCHANGED <<storeVars, ghostVars, mlArgs, memCache2, syncToRedis, redis, m, call,
                   fetchCalls, did, redis0, overlap>>

\* a caller that joined a call whose fn panicked: Do panics in the waiting
\* caller too
WaitReturn_panic(p) ==
    /\ pc[p] = "wait"
    /\ pc[call[p].join] = "panic"
    /\ pc' = [pc EXCEPT ![p] = "panic"]
    /\ did' = [did EXCEPT ![p] = @ \cup {"panic"}]
    /\ UNCHANGED <<storeVars, ghostVars, mlArgs, memCache2, syncToRedis, redis, m, call,
                   returned, fetchCalls, redis0, overlap>>

\* the caller cancels the context it passed as ctx; nothing in the call
\* waits on it, a caller waiting in Do included
Cancel(p) ==
    /\ ctx[p] = "active"
    /\ pc[p] # "done"
    /\ ctx' = [ctx EXCEPT ![p] = "canceled"]
    /\ did' = [did EXCEPT ![p] = @ \cup (IF pc[p] = "wait" THEN {"cancelWait"} ELSE {})]
    /\ UNCHANGED <<storeVars, ghostVars, memTTL, redisTTL, memCacheOf, redisClient, memCache2,
                   syncToRedis, redis, m, pc, call, returned, fetchCalls, redis0, overlap>>

\* the reaper of the tier-1 store takes the ticker branch once
ReaperSweep ==
    /\ reaper = "select"
    /\ IF policy = "LRU" THEN LRUCache_cleanupExpiredKeys ELSE FIFOCache_cleanupExpiredKeys
    /\ UNCHANGED <<policy, cfgType, maxSize, defaultTtl, mu, now, lifeVars, result, ghostVars, mlVars>>

\* a `go c.Delete(key)` started by a tier-1 lookup runs
LazyDelete(key) ==
    /\ pendingDelete[key] > 0
    /\ IF key \in cacheData
       THEN /\ list' = ListRemove(list, IndexOf(list, key))
            /\ cacheData' = cacheData \ {key}
       ELSE UNCHANGED <<list, cacheData>>
    /\ pendingDelete' = [pendingDelete EXCEPT ![key] = @ - 1]
    /\ UNCHANGED <<policy, cfgType, maxSize, defaultTtl, mu, now, lifeVars, result, ghostVars, mlVars>>

\* the reaper of store 2 takes the ticker branch once
MemCache2_cleanupExpiredKeys ==
    /\ memCache2' = Store_cleanupExpiredKeys(memCache2)
    /\ UNCHANGED <<storeVars, ghostVars, mlArgs, syncToRedis, redis, m, pc, call,
                   returned, fetchCalls, did, redis0, overlap>>

\* a `go c.Delete(key)` started by a lookup of store 2 runs
MemCache2_goDelete(key) ==
    /\ memCache2.pendingDelete[key] > 0
    /\ memCache2' = [Store_Delete(memCache2, key) EXCEPT !.pendingDelete[key] = @ - 1]
    /\ UNCHANGED <<storeVars, ghostVars, mlArgs, syncToRedis, redis, m, pc, call,
                   returned, fetchCalls, did, redis0, overlap>>

(* --------------------------- specification ---------------------------- *)

\* no multi-level call is made
MLIdle ==
    /\ memTTL = 1
    /\ redisTTL = 1
    /\ memCacheOf = [p \in Callers |-> 1]
    /\ ctx = [p \in Callers |-> "active"]
    /\ redisClient = Connected
    /\ memCache2 = NoStore
    /\ syncToRedis = FALSE
    /\ redis = [k \in MLKeys |-> Missing]
    /\ m = [k \in MLKeys |-> 0]
    /\ pc = [p \in Callers |-> "idle"]
    /\ call = [p \in Callers |-> NoCall]
    /\ returned = [p \in Callers |-> NoResult]
    /\ fetchCalls = [k \in MLKeys |-> 0]
    /\ did = [p \in Callers |-> {}]
    /\ redis0 = redis
    /\ overlap = TRUE

HistoryInit ==
    /\ promoted = <<>>
    /\ inserted = <<>>
    /\ script = 0
    /\ last = NoOp

\* a fresh store and its clients
Init ==
    /\ \E type \in Policies, capacity \in Capacities, ttl \in DefaultTTLs :
           NewCache(type, capacity, ttl)
    /\ now = 0
    /\ HistoryInit
    /\ result = NoMap
    /\ MLIdle

Next ==
    \/ \E k \in Keys, v \in Values : Set(k, v)
    \/ \E k \in Keys, v \in Values, t \in TTLs : SetWithTTL(k, v, t)
    \/ \E k \in Keys : Get(k)
    \/ \E k \in Keys : Delete(k)
    \/ Clear
    \/ \E k \in Keys : Touch(k)
    \/ cleanupExpiredKeys
    \/ \E k \in Keys : FIFOCache_goDelete(k)
    \/ Tick

Spec == Init /\ [][Next]_vars

\* a fresh store as tier 1, tier 2 with some content, and the callers of
\* GetWithMultiLevelCache
InitML ==
    /\ \E type \in Policies, capacity \in MLCapacities, ttl \in DefaultTTLs :
           NewCache(type, capacity, ttl)
    /\ now = 0
    /\ HistoryInit
    /\ result = NoMap
    /\ memTTL \in MemTTLs
    /\ redisTTL \in RedisTTLs
    /\ memCacheOf = [p \in Callers |-> 1]
    /\ ctx = [p \in Callers |-> "active"]
    /\ redisClient = Connected
    /\ memCache2 = NoStore
    /\ syncToRedis \in BOOLEAN
    /\ redis \in [MLKeys -> Payloads \cup {Missing}]
    /\ m = [k \in MLKeys |-> 0]
    /\ pc = [p \in Callers |-> "idle"]
    /\ call = [p \in Callers |-> NoCall]
    /\ returned = [p \in Callers |-> NoResult]
    /\ fetchCalls = [k \in MLKeys |-> 0]
    /\ did = [p \in Callers |-> {}]
    /\ redis0 = redis
    /\ overlap = TRUE

NextML ==
    \/ \E p \in Callers, k \in MLKeys : FastPath(p, k)
    \/ \E p \in Callers : DoEnter(p)
    \/ \E p \in Callers : Recheck(p)
    \/ \E p \in Callers : RedisGet(p)
    \/ \E p \in Callers : RedisHit(p)
    \/ \E p \in Callers : Fetch(p)
    \/ \E p \in Callers : Populate(p)
    \/ \E p \in Callers : WriteBack(p)
    \/ \E p \in Callers : Finish(p)
    \/ \E p \in Callers : WaitReturn(p)
    \/ ReaperSweep
    \/ \E k \in MLKeys : LazyDelete(k)
    \/ Tick

SpecML == InitML /\ [][NextML]_vars

\* keys, values and capacities of the store whose reaper is followed step
\* by step
StopKeys == {"a", "b"}

StopValues == {"i1"}

StopCapacities == {1}

\* a fresh store, its clients, and Stop
InitStop ==
    /\ \E type \in Policies, capacity \in StopCapacities, ttl \in DefaultTTLs :
           NewCache(type, capacity, ttl)
    /\ now = 0
    /\ HistoryInit
    /\ result = NoMap
    /\ MLIdle

\* the clients of the store, Stop among them, and the reaper with the
\* receipt of a tick and the sweep as separate steps
NextStop ==
    \/ \E k \in StopKeys, v \in StopValues, t \in TTLs : SetWithTTL(k, v, t)
    \/ \E k \in StopKeys : Get(k)
    \/ \E k \in StopKeys : Delete(k)
    \/ \E k \in StopKeys : FIFOCache_goDelete(k)
    \/ Stop
    \/ cleanupExpiredKeys_tick
    \/ cleanupExpiredKeys_sweep
    \/ cleanupExpiredKeys_stop
    \/ Tick

SpecStop == InitStop /\ [][NextStop]_vars

\* the reaper goroutine is scheduled, gets c.mu in its turn, and a select
\* that keeps finding stopChan ready takes that case in the end
SpecStopFair ==
    /\ SpecStop
    /\ WF_vars(cleanupExpiredKeys_sweep)
    /\ SF_vars(cleanupExpiredKeys_stop)

\* two fresh stores built alike, and callers of GetWithMultiLevelCache that
\* pass one or the other as memCache, each with a fetchAPI of its own
InitScope ==
    /\ \E type \in Policies, capacity \in MLCapacities, ttl \in DefaultTTLs :
           NewCache(type, capacity, ttl)
    /\ now = 0
    /\ HistoryInit
    /\ result = NoMap
    /\ memTTL \in MemTTLs
    /\ redisTTL \in RedisTTLs
    /\ memCacheOf \in [Callers -> Stores]
    /\ ctx = [p \in Callers |-> "active"]
    /\ redisClient = Connected
    /\ memCache2 = NoStore
    /\ syncToRedis \in BOOLEAN
    /\ redis \in [MLKeys -> {"1", Missing}]
    /\ m = [k \in MLKeys |-> 0]
    /\ pc = [p \in Callers |-> "idle"]
    /\ call = [p \in Callers |-> NoCall]
    /\ returned = [p \in Callers |-> NoResult]
    /\ fetchCalls = [k \in MLKeys |-> 0]
    /\ did = [p \in Callers |-> {}]
    /\ redis0 = redis
    /\ overlap = TRUE

NextScope ==
    \/ NextML
    \/ MemCache2_cleanupExpiredKeys
    \/ \E k \in MLKeys : MemCache2_goDelete(k)

SpecScope == InitScope /\ [][NextScope]_vars

\* payloads of tier 2 under the calls whose contexts are followed
CtxPayloads == {"1"}

\* a fresh store as tier 1, and callers of GetWithMultiLevelCache each with
\* a context of its own, which it may cancel
InitCtx ==
    /\ \E type \in Policies, capacity \in MLCapacities, ttl \in DefaultTTLs :
           NewCache(type, capacity, ttl)
    /\ now = 0
    /\ HistoryInit
    /\ result = NoMap
    /\ memTTL \in MemTTLs
    /\ redisTTL \in RedisTTLs
    /\ memCacheOf = [p \in Callers |-> 1]
    /\ ctx = [p \in Callers |-> "active"]
    /\ redisClient = Connected
    /\ memCache2 = NoStore
    /\ syncToRedis \in BOOLEAN
    /\ redis \in [MLKeys -> CtxPayloads \cup {Missing}]
    /\ m = [k \in MLKeys |-> 0]
    /\ pc = [p \in Callers |-> "idle"]
    /\ call = [p \in Callers |-> NoCall]
    /\ returned = [p \in Callers |-> NoResult]
    /\ fetchCalls = [k \in MLKeys |-> 0]
    /\ did = [p \in Callers |-> {}]
    /\ redis0 = redis
    /\ overlap = TRUE

\* the steps of the calls and the cancellations, while the clock stands
NextCtx ==
    \/ \E p \in Callers, k \in MLKeys : FastPath(p, k)
    \/ \E p \in Callers : DoEnter(p)
    \/ \E p \in Callers : Recheck(p)
    \/ \E p \in Callers : RedisGet(p)
    \/ \E p \in Callers : RedisHit(p)
    \/ \E p \in Callers : Fetch(p)
    \/ \E p \in Callers : Populate(p)
    \/ \E p \in Callers : WriteBack(p)
    \/ \E p \in Callers : Finish(p)
    \/ \E p \in Callers : WaitReturn(p)
    \/ \E p \in Callers : Cancel(p)

SpecCtx == InitCtx /\ [][NextCtx]_vars

\* the keys of the calls followed to their return
LiveKeys == {"a", "b"}

\* a fresh store as tier 1, and callers of GetWithMultiLevelCache for the
\* same key or for different ones; tier 2 holds every key or none
InitLive ==
    /\ \E capacity \in MLCapacities, ttl \in DefaultTTLs : NewCache("LRU", capacity, ttl)
    /\ now = 0
    /\ HistoryInit
    /\ result = NoMap
    /\ memTTL \in MemTTLs
    /\ redisTTL \in RedisTTLs
    /\ memCacheOf = [p \in Callers |-> 1]
    /\ ctx = [p \in Callers |-> "active"]
    /\ redisClient = Connected
    /\ memCache2 = NoStore
    /\ syncToRedis \in BOOLEAN
    /\ redis \in {[k \in LiveKeys |-> v] : v \in CtxPayloads \cup {Missing}}
    /\ m = [k \in LiveKeys |-> 0]
    /\ pc = [p \in Callers |-> "idle"]
    /\ call = [p \in Callers |-> NoCall]
    /\ returned = [p \in Callers |-> NoResult]
    /\ fetchCalls = [k \in LiveKeys |-> 0]
    /\ did = [p \in Callers |-> {}]
    /\ redis0 = redis
    /\ overlap = TRUE

\* the steps a call takes after its first lookup
Proceed(p) ==
    \/ DoEnter(p)
    \/ Recheck(p)
    \/ RedisGet(p)
    \/ RedisHit(p)
    \/ Fetch(p)
    \/ Populate(p)
    \/ WriteBack(p)
    \/ Finish(p)
    \/ WaitReturn(p)

\* the calls start and proceed, while the clock stands
NextLive ==
    \/ \E p \in Callers, k \in LiveKeys : FastPath(p, k)
    \/ \E p \in Callers : Proceed(p)

\* every goroutine that can take a step is scheduled, and every call of
\* redisClient and of fetchAPI returns
SpecLive ==
    /\ InitLive
    /\ [][NextLive]_vars
    /\ \A p \in Callers : WF_vars(Proceed(p))

LockCapacities == {1}

Threads == ClientThreads \cup {"reaper", "go"}

\* a fresh store, and the goroutines that call it seen at their lock,
\* body and unlock
InitLock ==
    /\ \E type \in Policies, capacity \in LockCapacities, ttl \in DefaultTTLs :
           NewCache(type, capacity, ttl)
    /\ now = 0
    /\ HistoryInit
    /\ result = NoMap
    /\ MLIdle

NextLock ==
    \/ \E t \in ClientThreads : \E c \in ClientCalls : Acquire(t, c)
    \/ cleanupExpiredKeys_Lock
    \/ \E k \in LockKeys : FIFOCache_goDelete_Lock(k)
    \/ \E t \in Threads : Run(t)
    \/ \E t \in Threads : Release(t)
    \/ Tick

SpecLock == InitLock /\ [][NextLock]_vars

\* the values of cfg.Type: one that NewCache knows and the empty string
CfgTypes == {"FIFO", ""}

TypeCapacities == {2}

\* a fresh store made by NewCache from any cfg.Type, and its clients
InitType ==
    /\ \E type \in CfgTypes, capacity \in TypeCapacities, ttl \in DefaultTTLs :
           NewCache(type, capacity, ttl)
    /\ now = 0
    /\ HistoryInit
    /\ result = NoMap
    /\ MLIdle

SpecType == InitType /\ [][Next]_vars

\* the capacities given to the constructors: negative, zero, and one
EdgeCapacities == {-1, 0, 1}

\* a fresh store of either policy made with any such capacity, and its clients
InitEdge ==
    /\ \E type \in Policies, capacity \in EdgeCapacities, ttl \in DefaultTTLs :
           NewCache(type, capacity, ttl)
    /\ now = 0
    /\ HistoryInit
    /\ result = NoMap
    /\ MLIdle

SpecEdge == InitEdge /\ [][Next]_vars

\* a fresh store as tier 1 and callers of GetWithMultiLevelCache that pass
\* what NewRedisClient returned, a client or nil
InitNil ==
    /\ \E type \in Policies, capacity \in MLCapacities, ttl \in DefaultTTLs :
           NewCache(type, capacity, ttl)
    /\ now = 0
    /\ HistoryInit
    /\ result = NoMap
    /\ memTTL \in MemTTLs
    /\ redisTTL \in RedisTTLs
    /\ memCacheOf = [p \in Callers |-> 1]
    /\ ctx = [p \in Callers |-> "active"]
    /\ redisClient \in {Connected, NilClient}
    /\ memCache2 = NoStore
    /\ syncToRedis \in BOOLEAN
    /\ redis \in [MLKeys -> CtxPayloads \cup {Missing}]
    /\ m = [k \in MLKeys |-> 0]
    /\ pc = [p \in Callers |-> "idle"]
    /\ call = [p \in Callers |-> NoCall]
    /\ returned = [p \in Callers |-> NoResult]
    /\ fetchCalls = [k \in MLKeys |-> 0]
    /\ did = [p \in Callers |-> {}]
    /\ redis0 = redis
    /\ overlap = TRUE

NextNil ==
    \/ \E p \in Callers, k \in MLKeys : FastPath(p, k)
    \/ \E p \in Callers : DoEnter(p)
    \/ \E p \in Callers : Recheck(p)
    \/ \E p \in Callers : RedisGet(p)
    \/ \E p \in Callers : RedisGet_nil(p)
    \/ \E p \in Callers : RedisHit(p)
    \/ \E p \in Callers : Fetch(p)
    \/ \E p \in Callers : Populate(p)
    \/ \E p \in Callers : WriteBack(p)
    \/ \E p \in Callers : Finish(p)
    \/ \E p \in Callers : WaitReturn(p)
    \/ \E p \in Callers : WaitReturn_panic(p)
    \/ Tick

SpecNil == InitNil /\ [][NextNil]_vars

\* capacities of the stores whose calls are followed one at a time
OpsCapacities == {2, 3}

\* the keys written in those calls: the keys the stores hold, and one that
\* no store holds
OpsKeys == Keys \cup {"d"}

\* the items a store may hold at time t: each written at t with a ttl of TTLs
ItemsAt(t) == [key : Keys, Value : Values, Timeout : {t + ttl : ttl \in TTLs}]

\* the lists a store of capacity n may hold at time t: at most n items, no
\* key twice, in any order
ListsAt(n, t) ==
    UNION {{l \in [1 .. len -> ItemsAt(t)] :
                \A i, j \in 1 .. len : l[i].key = l[j].key => i = j} : len \in 0 .. n}

\* a store in use at time 0, with any content SetWithTTL calls can have
\* left in it, and a client about to make a call
InitOps ==
    /\ policy \in Policies
    /\ cfgType = policy
    /\ mu = Unlocked
    /\ maxSize \in OpsCapacities
    /\ defaultTtl \in DefaultTTLs
    /\ now = 0
    /\ list \in ListsAt(maxSize, now)
    /\ cacheData = KeysOf(list)
    /\ pendingDelete = [k \in Keys |-> 0]
    /\ stopChan = "open"
    /\ reaper = "select"
    /\ promoted = (IF policy = "LRU" THEN [i \in DOMAIN list |-> list[i].key] ELSE <<>>)
    /\ inserted = (IF policy = "FIFO" THEN [i \in DOMAIN list |-> list[i].key] ELSE <<>>)
    /\ script = -1
    /\ last = NoOp
    /\ result = NoMap
    /\ MLIdle

\* one call of the client on the store, any call; then the steps that can
\* follow it: the `go c.Delete(key)` a Get started, the client's change of
\* the map GetAll gave it, and after a Delete another Delete or a Get
NextOps ==
    \/ \E k \in OpsKeys, v \in Values : last.op = "none" /\ Set(k, v)
    \/ \E k \in OpsKeys, v \in Values, t \in TTLs : last.op = "none" /\ SetWithTTL(k, v, t)
    \/ \E k \in Keys : last.op \in {"none", "Delete"} /\ Get(k)
    \/ \E k \in Keys : last.op \in {"none", "Delete"} /\ Delete(k)
    \/ \E k \in Keys : last.op = "none" /\ Touch(k)
    \/ last.op = "none" /\ GetAll
    \/ last.op = "none" /\ Size
    \/ \E k \in Keys : last.op = "Get" /\ FIFOCache_goDelete(k)
    \/ \E k \in Keys : last.op = "GetAll" /\ Result_delete(k)

SpecOps == InitOps /\ [][NextOps]_vars

(* ------------------------- claims on the store ------------------------ *)

\* C1: a store built with capacity N > 0 never holds more than N entries
\* after any completed call, whatever the interleaving of Set, SetWithTTL,
\* Get, Delete, Clear and sweeps.
C1_CapacityBound == maxSize > 0 => Cache_Size <= maxSize

\* an insertion into a full store of capacity 2 has just evicted
C1_Witness ==
    /\ maxSize = 2
    /\ last.op = "SetWithTTL"
    /\ last.victim # NoKey
    /\ Cache_Size = 2

\* C3: in an LRU store the entry an insertion evicts is the present key
\* whose most recent promotion is the oldest; with capacity 2, Set(a),
\* Set(b), Get(a), Set(c) leaves exactly {a, c}.
C3_LRUEvictionOrder ==
    policy = "LRU" =>
        /\ last.victim = last.oldest
        /\ script = 4 => KeysOf(list) = {"a", "c"}

\* the four calls have run on an LRU store and the last one evicted b
C3_Witness == policy = "LRU" /\ script = 4 /\ last.victim = "b"

\* C4: in a FIFO store the entry an insertion evicts is the present key
\* inserted as a new key the earliest, whatever reads and updates it has had
\* since; with capacity 2, Set(a), Set(b), Get(a), Set(c) leaves exactly {b, c}.
C4_FIFOEvictionOrder ==
    policy = "FIFO" =>
        /\ last.victim = last.oldest
        /\ script = 4 => KeysOf(list) = {"b", "c"}

\* the four calls have run on a FIFO store and the last one evicted a
C4_Witness == policy = "FIFO" /\ script = 4 /\ last.victim = "a"

\* C5: Get returns found = true, with the stored value, exactly when the
\* entry is present and the clock is not after its expiresAt; an expired
\* entry is never returned as found, present in the store or not.
C5_Expiry ==
    last.op = "Get" =>
        /\ last.ok <=> last.case = "live"
        /\ last.ok => last.val = last.stored

\* a Get has just met an expired entry that was still in the store
C5_Witness == last.op = "Get" /\ last.case = "expired" /\ ~last.ok

\* C6: the order list and the lookup map hold the same keys, each key once
\* in the list, in every state between operations.
C6_OrderEntriesAgree ==
    /\ KeysOf(list) = cacheData
    /\ Len(list) = Cardinality(cacheData)

\* a removal has just left a non-empty store
C6_Witness ==
    /\ last.op \in {"Delete", "goDelete", "sweep"}
    /\ Len(list) > 0

(* -------------------- claims on the multi-level Get ------------------- *)

AllDone == \A p \in Callers : pc[p] = "done"

\* all calls are for one key, which tier 2 did not hold at the start
OneMissingKey ==
    \E k \in MLKeys : redis0[k] = Missing /\ \A p \in Callers : call[p].key = k

SameValue == \A p, q \in Callers : returned[p].val = returned[q].val

OneFetch == \E k \in MLKeys : fetchCalls[k] = 1 /\ \A p \in Callers : call[p].key = k

C7_LayeredFallback ==
    \A p \in Callers :
        /\ (pc[p] = "done" /\ "t2hit" \in did[p]) =>
               /\ returned[p] = [val |-> Unmarshal(call[p].redisVal).val, err |-> NoErr]
               /\ "fetch" \notin did[p]
               /\ call[p].set1 = [key |-> call[p].key,
                                  value |-> Unmarshal(call[p].redisVal).val,
                                  ttl |-> memTTL]
        /\ (pc[p] = "done" /\ "live" \in did[p]) =>
               /\ did[p] \cap {"t2read", "fetch", "exec", "join"} = {}
               /\ returned[p].err = NoErr

\* one call was answered by tier 2, and a later one by the entry it wrote
C7_Witness ==
    \E p, q \in Callers :
        /\ pc[p] = "done" /\ "t2hit" \in did[p]
        /\ pc[q] = "done" /\ "t1hit" \in did[q] /\ ~overlap
        /\ returned[q] = returned[p]
        /\ returned[p].val = "f1"

\* C8 as stated: when fetchAPI fails the call returns that error and a nil
\* value, and changes neither store.
C8_AsStated ==
    \A p \in Callers :
        (pc[p] = "done" /\ "fetchErr" \in did[p]) =>
            /\ returned[p] = [val |-> Nil, err |-> call[p].fetched.err]
            /\ did[p] \cap {"set1", "set2", "lazy", "changed"} = {}

\* C8, amended: when fetchAPI fails the call returns that error and a nil
\* value and writes neither tier; the one change its own steps can make to
\* tier 1 is a lookup's removal of the key's expired entry.
C8_HardFailure ==
    \A p \in Callers :
        (pc[p] = "done" /\ "fetchErr" \in did[p]) =>
            /\ returned[p] = [val |-> Nil, err |-> call[p].fetched.err]
            /\ did[p] \cap {"set1", "set2", "changed"} = {}

\* a call with write-back switched on has returned the error of fetchAPI
C8_Witness ==
    \E p \in Callers :
        /\ pc[p] = "done" /\ "fetchErr" \in did[p]
        /\ syncToRedis
        /\ returned[p].err = "e2"

\* the caller whose execution of fn produced p's result
Executor(p) == IF "join" \in did[p] THEN call[p].join ELSE p

\* C9: a call returns an error exactly when fetchAPI was invoked by the
\* execution that served it and failed, and the error is that of fetchAPI;
\* a tier-2 read that fails or yields nothing usable is followed by fetchAPI.
C9_OnlyOriginErrors ==
    \A p \in Callers :
        pc[p] = "done" =>
            /\ returned[p].err # NoErr <=> "fetchErr" \in did[Executor(p)]
            /\ returned[p].err # NoErr =>
                   returned[p].err = call[Executor(p)].fetched.err
            /\ "t2fail" \in did[p] => "fetch" \in did[p]

\* a call met an undecodable payload in tier 2 and returned a fetched value
C9_Witness ==
    \E p \in Callers :
        /\ pc[p] = "done" /\ "t2fail" \in did[p]
        /\ call[p].redisVal = "junk"
        /\ returned[p].err = NoErr
        /\ returned[p].val = call[p].fetched.val

\* C10: a caller that joined a call in flight receives the (value, error)
\* that execution produced; when fetchAPI failed it receives that error and
\* no value.
C10_SharedOutcome ==
    \A p \in Callers :
        (pc[p] = "done" /\ "join" \in did[p]) =>
            /\ returned[p] = [val |-> call[call[p].join].val,
                              err |-> call[call[p].join].err]
            /\ "fetchErr" \in did[call[p].join] =>
                   /\ returned[p].err = call[call[p].join].fetched.err
                   /\ returned[p].val = Nil

\* a caller that joined has received the error of the fetchAPI it waited for
C10_Witness ==
    \E p \in Callers :
        /\ pc[p] = "done" /\ "join" \in did[p]
        /\ returned[p].err = "e1"

\* the positions of a caller that is executing fn
Executing == {"recheck", "redis", "t2set", "fetch", "populate", "writeback", "finish"}

\* C12: the group holds a record for a key only while a caller is executing
\* fn for that key; when no call is in progress the group is empty; a caller
\* can only have joined a caller that executed fn, never itself.
C12_NoStaleRecord ==
    /\ \A k \in MLKeys :
           /\ m[k] # 0 => (call[m[k]].key = k /\ pc[m[k]] \in Executing)
           /\ (\A p \in Callers : pc[p] \in {"idle", "done"}) => m[k] = 0
    /\ \A p \in Callers :
           /\ pc[p] \in Executing => m[call[p].key] = p
           /\ "join" \in did[p] =>
                  (call[p].join # p /\ "exec" \in did[call[p].join])

\* every call has returned, the group is empty, and a second computation was
\* started afresh for the key after the first one had finished
C12_Witness ==
    /\ AllDone
    /\ \A k \in MLKeys : m[k] = 0 /\ fetchCalls[k] = 2
    /\ \A p \in Callers : "exec" \in did[p] /\ call[p].key = "a"

\* C13: a call whose first tier-1 lookup hits has returned the value found,
\* with no error, in that same step: it has not entered Do (neither executed
\* fn nor joined a call in flight), has not read tier 2 and has not fetched.
C13_FastPathBypass ==
    \A p \in Callers :
        "t1hit" \in did[p] =>
            /\ pc[p] = "done"
            /\ did[p] \subseteq {"t1hit", "live"}
            /\ returned[p].err = NoErr
            /\ \E q \in Callers : /\ "set1" \in did[q]
                                   /\ returned[p].val = call[q].set1.value

\* a call was answered by its first lookup while another caller was still
\* executing fn for the same key
C13_Witness ==
    \E p \in Callers :
        /\ "t1hit" \in did[p] /\ pc[p] = "done"
        /\ m[call[p].key] \notin {0, p}
        /\ pc[m[call[p].key]] \in {"writeback", "finish"}

\* C14: tier 2 is written only by a call whose fetchAPI succeeded and only
\* when syncToRedis is set, with the key, the marshalled fetched value and
\* redisTTL; while no such write was made tier 2 is as it was at the start;
\* and a call whose fetchAPI succeeded returns the fetched value and no error
\* whether or not the write reached tier 2.
C14_WriteBackPolicy ==
    /\ \A p \in Callers :
           /\ "set2" \in did[p] =>
                  /\ syncToRedis
                  /\ "fetch" \in did[p] /\ "fetchErr" \notin did[p]
                  /\ did[p] \cap {"t1hit", "rehit", "t2hit"} = {}
                  /\ call[p].set2 = [key |-> call[p].key,
                                     data |-> Marshal(call[p].fetched.val),
                                     ttl |-> redisTTL]
           /\ "set2" \notin did[p] => call[p].set2 = NoArgs2
           /\ (pc[p] = "done" /\ "fetch" \in did[p] /\ "fetchErr" \notin did[p]) =>
                  returned[p] = [val |-> call[p].fetched.val, err |-> NoErr]
    /\ \A k \in MLKeys :
           redis[k] # redis0[k] =>
               \E p \in Callers : /\ "set2" \in did[p]
                                  /\ call[p].set2.key = k
                                  /\ redis[k] = call[p].set2.data

\* a call has returned the fetched value although its write to tier 2 failed
C14_Witness ==
    \E p \in Callers :
        /\ pc[p] = "done" /\ "set2" \in did[p]
        /\ redis0[call[p].key] = Missing /\ redis[call[p].key] = Missing
        /\ returned[p] = [val |-> "i1", err |-> NoErr]

(* ------------------------ claims on the reaper ------------------------ *)

\* C18: one sweep at time `now` removes every entry with now after its
\* Timeout and nothing else: the entries left are exactly those that had not
\* expired, each with its value and Timeout as before and in the same
\* relative order, the map holds their keys, and expiredCount is the number
\* removed.
C18_ReaperEffect ==
    [][last'.op = "sweep" =>
          /\ \A i \in DOMAIN list' :
                 \E j \in DOMAIN list : list[j] = list'[i] /\ now <= list[j].Timeout
          /\ \A j \in DOMAIN list :
                 now <= list[j].Timeout => \E i \in DOMAIN list' : list'[i] = list[j]
          /\ \A i1, i2 \in DOMAIN list' :
                 i1 < i2 => IndexOf(list, list'[i1].key) < IndexOf(list, list'[i2].key)
          /\ cacheData' = KeysOf(list')
          /\ last'.swept = Len(list) - Len(list')]_vars

\* a sweep has just removed an expired entry and left another in place
C18_Witness ==
    /\ last.op = "sweep"
    /\ last.swept = 1
    /\ Len(list) = 1

\* C19: when Get finds the entry present but expired it returns found =
\* false and the key has no entry left, in the list or in the map, when the
\* call returns.
C19_LazyRemoval ==
    (last.op = "Get" /\ last.case = "expired") => (~last.ok /\ ~last.left)

\* C20: the steps that handle expiry (the lazy removal by a read, the sweep,
\* the deletion a Get started on an expired entry) remove no entry that has
\* not expired at the moment of the removal, an entry refreshed by a Set
\* in the meantime included.
C20_OnlyExpiredRemoved == ~last.tookLive

\* C15: every call of Stop returns normally, the second and later ones too.
C15_StopIdempotent == last.op = "Stop" => last.ok

\* C16: no sweep is made on a store once Stop has returned, a tick pending
\* at the moment of the Stop included.
C16_NoSweepAfterStop == last.op = "sweep" => stopChan = "open"

\* C17: once Stop has been called the reaper goroutine ends.
C17_ReaperTermination == (stopChan = "closed") ~> (reaper = "exited")

\* the reaper has ended on a stopped store that still holds an entry
C17_Witness ==
    /\ reaper = "exited"
    /\ stopChan = "closed"
    /\ Len(list) > 0

(* --------------------- claims on the single calls --------------------- *)

\* the entries of the keys other than k are as they were, value and Timeout,
\* and in the same order one to another
OthersKept(k) ==
    /\ \A o \in KeysOf(list) \ {k} : ItemIn(list', o) = ItemIn(list, o)
    /\ \A o1, o2 \in KeysOf(list) \ {k} :
           IndexOf(list, o1) < IndexOf(list, o2) => IndexOf(list', o1) < IndexOf(list', o2)

\* what a write of (k, v) with ttl has done when k had an entry
UpdatePost(k, v, ttl) ==
    k \in KeysOf(list) =>
        /\ ItemIn(list', k) = [key |-> k, Value |-> v, Timeout |-> now + ttl]
        /\ IndexOf(list', k) = (IF policy = "LRU" THEN Len(list) ELSE IndexOf(list, k))
        /\ Len(list') = Len(list)
        /\ OthersKept(k)

\* C21: SetWithTTL, and Set with the default ttl, on a key that has an entry
\* replaces the value, sets the Timeout to now + ttl, and moves the entry to
\* the back of the list in an LRU store while leaving it in its place in a
\* FIFO store; the other entries keep their value, their Timeout and their
\* order.
C21_UpdateSemantics ==
    [][last'.op = "SetWithTTL" =>
          /\ \A k \in OpsKeys, v \in Values, t \in TTLs :
                 SetWithTTL(k, v, t) => UpdatePost(k, v, t)
          /\ \A k \in OpsKeys, v \in Values :
                 Set(k, v) => UpdatePost(k, v, defaultTtl)]_vars

\* an update has just moved a live entry to the back of an LRU store of
\* three entries and given it a Timeout in the past
C21_Witness ==
    /\ last.op = "SetWithTTL"
    /\ last.case = "live"
    /\ policy = "LRU"
    /\ Len(list) = 3
    /\ list[3].Timeout = now - 1

\* the step is a write of (k, v) with ttl t: SetWithTTL, or Set with the
\* default ttl
Written(k, v, t) == SetWithTTL(k, v, t) \/ (t = defaultTtl /\ Set(k, v))

\* C22: Set/SetWithTTL on a key that has an entry leaves the set of keys of
\* the store as it was, in the list and in the map, a full store included.
C22_UpdatesNeverEvict ==
    [][last'.op = "SetWithTTL" =>
          \A k \in OpsKeys, v \in Values, t \in TTLs :
              (Written(k, v, t) /\ k \in cacheData) =>
                  /\ KeysOf(list') = KeysOf(list)
                  /\ cacheData' = cacheData
                  /\ Len(list') = Len(list)]_vars

\* an expired entry has just been updated in a full store of two entries
C22_Witness ==
    /\ last.op = "SetWithTTL"
    /\ last.case = "expired"
    /\ maxSize = 2
    /\ Len(list) = maxSize
    /\ last.victim = NoKey

\* C23: with capacity N > 0, SetWithTTL of a key that has no entry removes
\* nothing when the store holds fewer than N entries and removes exactly the
\* front entry when it holds N; the entries kept stay as they were and in
\* order, the size after is min(size before + 1, N), and the key has an
\* entry.
C23_EvictionTrigger ==
    [][last'.op = "SetWithTTL" =>
          \A k \in OpsKeys, v \in Values, t \in TTLs :
              (Written(k, v, t) /\ k \notin cacheData /\ maxSize > 0) =>
                  /\ Len(list) < maxSize => SubSeq(list', 1, Len(list)) = list
                  /\ Len(list) = maxSize =>
                         /\ KeysOf(list) \ KeysOf(list') = {list[1].key}
                         /\ SubSeq(list', 1, Len(list) - 1) = Tail(list)
                  /\ Len(list') = (IF Len(list) + 1 < maxSize THEN Len(list) + 1 ELSE maxSize)
                  /\ k \in KeysOf(list') /\ k \in cacheData'
                  /\ cacheData' = KeysOf(list')]_vars

\* a new key has just been inserted into a full store of three entries, and
\* the front entry removed
C23_Witness ==
    /\ last.op = "SetWithTTL"
    /\ last.case = "absent"
    /\ last.victim # NoKey
    /\ maxSize = 3
    /\ Len(list) = 3

\* C24: a Get that hits changes no entry's value or Timeout, nor the set of
\* keys; in an LRU store it moves the entry read to the back and leaves the
\* others in their order; in a FIFO store it changes nothing at all.
C24_ReadHitFrame ==
    [][last'.op = "Get" =>
          \A k \in Keys :
              (Get(k) /\ Cache_GetResult(k).ok) =>
                  /\ cacheData' = cacheData
                  /\ KeysOf(list') = KeysOf(list)
                  /\ Len(list') = Len(list)
                  /\ ItemIn(list', k) = ItemIn(list, k)
                  /\ OthersKept(k)
                  /\ pendingDelete' = pendingDelete
                  /\ policy = "LRU" => IndexOf(list', k) = Len(list)
                  /\ policy = "FIFO" => list' = list]_vars

\* a Get has just hit in an LRU store of three entries whose front entry
\* has expired: the entry read is at the back
C24_Witness ==
    /\ last.op = "Get"
    /\ last.ok
    /\ policy = "LRU"
    /\ Len(list) = 3
    /\ list[3].Value = last.val
    /\ list[1].Timeout < now

\* C25: Delete of a key with no entry changes nothing; Delete of a key with
\* an entry, expired or not, removes that entry and no other; a Get of the
\* key right after finds nothing, and so a second Delete of the key, which
\* meets a key with no entry, leaves the store as the first one left it.
C25_Delete ==
    [][last'.op = "Delete" =>
          \A k \in Keys :
              Delete(k) =>
                  /\ k \notin cacheData => (list' = list /\ cacheData' = cacheData)
                  /\ cacheData' = cacheData \ {k}
                  /\ KeysOf(list') = KeysOf(list) \ {k}
                  /\ Len(list') = Cardinality(KeysOf(list) \ {k})
                  /\ OthersKept(k)
                  /\ pendingDelete' = pendingDelete
                  /\ ~(Cache_GetResult(k).ok)']_vars

\* a Delete has just removed an expired entry and left two others
C25_Witness ==
    /\ last.op = "Delete"
    /\ last.case = "expired"
    /\ Len(list) = 2

\* C26: GetAll returns a map whose keys are the keys of the store whose
\* entry has not expired at the call, each with its value, and leaves the
\* store as it was, expired entries and order included; a change the caller
\* makes to the map afterwards changes nothing in the store, nor what a new
\* GetAll returns.
C26_GetAllSnapshot ==
    [][last'.op \in {"GetAll", "delete(result)"} =>
          /\ GetAll =>
                 /\ DOMAIN result' = {k \in KeysOf(list) : now <= ItemIn(list, k).Timeout}
                 /\ \A k \in DOMAIN result' : result'[k] = ItemIn(list, k).Value
                 /\ list' = list /\ cacheData' = cacheData
                 /\ pendingDelete' = pendingDelete
          /\ \A k \in Keys :
                 Result_delete(k) =>
                     /\ list' = list /\ cacheData' = cacheData
                     /\ Cache_GetAll' = Cache_GetAll
                     /\ DOMAIN Cache_GetAll' # DOMAIN result']_vars

\* the store holds three entries, one of them expired; GetAll gave the two
\* others, and the caller has deleted one of them from the map it got
C26_Witness ==
    /\ last.op = "delete(result)"
    /\ Len(list) = 3
    /\ Cardinality({i \in DOMAIN list : list[i].Timeout < now}) = 1
    /\ Cardinality(DOMAIN result) = 1

\* C27: Size returns the number of entries that have not expired, the number
\* of keys GetAll returns at the same moment.
C27_SizeExcludesExpired ==
    last.op = "Size" => Cache_Size = Cardinality(DOMAIN Cache_GetAll)

\* C28: the Timeout a Set/SetWithTTL call gives the entry it writes is not
\* before the time of the call, whatever ttlSeconds is, zero or negative
\* included.
C28_NonPastDatedExpiry ==
    [][last'.op = "SetWithTTL" =>
          \A k \in Keys, v \in Values, t \in TTLs :
              Written(k, v, t) => ItemIn(list', k).Timeout >= now]_vars

\* C37: Touch of a key whose entry has not expired returns true and moves
\* the entry to the back of the list, as a Get of the key does, with no
\* value or Timeout changed, so that the entry is not the one the next
\* insertion evicts; Touch of a key whose entry has expired removes that
\* entry and returns false; Touch of a key with no entry returns false and
\* changes nothing.
C37_Touch ==
    [][last'.op = "Touch" =>
          \A k \in Keys :
              Touch(k) =>
                  /\ pendingDelete' = pendingDelete
                  /\ CaseOf(k) = "live" =>
                         /\ last'.ok
                         /\ LRUCache_Get(k)
                         /\ cacheData' = cacheData
                         /\ Len(list') = Len(list)
                         /\ IndexOf(list', k) = Len(list)
                         /\ ItemIn(list', k) = ItemIn(list, k)
                         /\ OthersKept(k)
                         /\ Len(list) > 1 => Victim(list') # k
                  /\ CaseOf(k) = "expired" =>
                         /\ ~last'.ok
                         /\ cacheData' = cacheData \ {k}
                         /\ KeysOf(list') = KeysOf(list) \ {k}
                         /\ Len(list') = Len(list) - 1
                         /\ OthersKept(k)
                  /\ CaseOf(k) = "absent" =>
                         /\ ~last'.ok
                         /\ list' = list
                         /\ cacheData' = cacheData]_vars

\* a Touch has returned true in a full store of three entries: the entry
\* touched is at the back, and the entry at the front is an expired one
C37_Witness ==
    /\ last.op = "Touch"
    /\ last.ok
    /\ last.case = "live"
    /\ maxSize = 3
    /\ Len(list) = 3
    /\ list[1].Timeout < now
    /\ list[3].Timeout >= now

(* ------------------ claims on the contexts of a call ------------------ *)

\* C29: every collaborator call made inside fn is given a context with a
\* deadline of its own: the tier-2 read and the tier-2 write one of
\* redisTimeout, fetchAPI one of apiTimeout.
C29_DeadlineBounded ==
    \A p \in Callers :
        /\ call[p].under.get \in {"none", "redisTimeout"}
        /\ call[p].under.set \in {"none", "redisTimeout"}
        /\ call[p].under.fetch \in {"none", "apiTimeout"}

\* C30: an execution of fn whose own caller has not canceled its context
\* makes none of its collaborator calls under a canceled context and does
\* not end with the cancellation error, whatever the callers waiting for it
\* have done with theirs; the executing caller and every caller that joined
\* it, the one that canceled included, receive the result of that execution.
C30_WaiterCancellationIsolated ==
    \A e \in Callers :
        ("exec" \in did[e] /\ ctx[e] = "active") =>
            /\ "cut" \notin did[e]
            /\ call[e].err # Canceled
            /\ returned[e].err # Canceled
            /\ \A q \in Callers :
                   (pc[q] = "done" /\ "join" \in did[q] /\ call[q].join = e) =>
                       /\ returned[q] = returned[e]
                       /\ returned[q] = [val |-> call[e].val, err |-> call[e].err]

\* a caller canceled its context while it waited in Do; the execution it had
\* joined went on to fetch, and both callers have the fetched value
C30_Witness ==
    \E e, q \in Callers :
        /\ pc[q] = "done" /\ "cancelWait" \in did[q] /\ call[q].join = e
        /\ ctx[q] = "canceled" /\ ctx[e] = "active"
        /\ pc[e] = "done" /\ "fetch" \in did[e] /\ "set2" \in did[e]
        /\ returned[q] = [val |-> "i1", err |-> NoErr]
        /\ returned[e] = returned[q]

\* C31: a call given a nil redisClient does not panic: after the miss in
\* tier 1 it goes on to fetchAPI.
C31_NilClientNoPanic ==
    \A p \in Callers :
        redisClient = NilClient =>
            /\ pc[p] # "panic"
            /\ (pc[p] = "done" /\ "exec" \in did[p] /\ "rehit" \notin did[p])
                   => "fetch" \in did[p]

\* C35: the tier-2 read and fetchAPI of an execution see the context of the
\* executing caller and no other: they are cut short exactly when that
\* context is canceled; and the cancellation error fetchAPI then returns is
\* what the executing caller and every caller that joined it return, those
\* whose own context is not canceled included.
C35_ExecutorContextGoverns ==
    [][\A e \in Callers :
           /\ (pc[e] = "redis" /\ pc'[e] # "redis" /\ ctx[e] = "canceled") =>
                  pc'[e] = "fetch"
           /\ (pc[e] = "fetch" /\ pc'[e] # "fetch") =>
                  (call'[e].fetched.err = Canceled <=> ctx[e] = "canceled")
           /\ call'[e].fetched.err = Canceled =>
                  /\ call'[e].err = Canceled
                  /\ pc'[e] = "done" => returned'[e] = [val |-> Nil, err |-> Canceled]
                  /\ \A q \in Callers :
                         (pc'[q] = "done" /\ "join" \in did'[q] /\ call'[q].join = e) =>
                             returned'[q] = [val |-> Nil, err |-> Canceled]]_vars

\* the executing caller canceled its context before the fetch; a caller that
\* joined it and canceled nothing has returned the cancellation error
C35_Witness ==
    \E e, q \in Callers :
        /\ "exec" \in did[e] /\ ctx[e] = "canceled" /\ call[e].fetched.err = Canceled
        /\ pc[q] = "done" /\ "join" \in did[q] /\ call[q].join = e
        /\ ctx[q] = "active"
        /\ returned[q] = [val |-> Nil, err |-> Canceled]

\* C36: every call of GetWithMultiLevelCache that has started returns, the
\* one that executes fn and the one that waits for it alike.
C36_EveryGetReturns == \A p \in Callers : (pc[p] # "idle") ~> (pc[p] = "done")

\* a caller that waited for the call of another has returned the error of
\* that call, and so has the other
C36_Witness ==
    \E e, q \in Callers :
        /\ pc[e] = "done" /\ "exec" \in did[e] /\ "fetchErr" \in did[e]
        /\ pc[q] = "done" /\ "join" \in did[q] /\ call[q].join = e
        /\ returned[q].err \in Errors
        /\ \A k \in LiveKeys : m[k] = 0

(* ------------------------- claims on the lock ------------------------- *)

\* C34: a step that changes the list, the map or the value or Timeout of an
\* entry is taken by the call that holds c.mu for writing, while no call
\* holds it for reading; so a call that holds it for reading changes none of
\* them, and no call holds c.mu for reading while another holds it for
\* writing.
C34_ExclusiveMutation ==
    [][/\ (list' # list \/ cacheData' # cacheData) =>
              /\ mu.w # NoHolder /\ ~mu.w.ran
              /\ mu.r = {}
              /\ mu' = [mu EXCEPT !.w.ran = TRUE]
       /\ mu'.w = NoHolder \/ mu'.r = {}]_vars

\* in a FIFO store two calls hold c.mu for reading: a Get that found its
\* entry expired and started `go c.Delete`, and a GetAll; the entry is still
\* in the list
C34_Witness ==
    /\ policy = "FIFO"
    /\ \E h, i \in mu.r :
           /\ h.op = "Get" /\ h.ran /\ pendingDelete[h.key] = 1 /\ h.key \in cacheData
           /\ i.op = "GetAll" /\ i.ran /\ h.t # i.t
    /\ mu.w = NoHolder
    /\ last.op = "GetAll"

(* ----------------------- claims on the set-back ------------------------ *)

\* a call that has returned after a successful fetchAPI
Fetched(p) == pc[p] = "done" /\ "fetch" \in did[p] /\ "fetchErr" \notin did[p]

LRUCache_Step ==
    /\ last'.op = "SetWithTTL" =>
           \E k \in Keys, v \in Values, t \in TTLs : LRUCache_SetWithTTL(k, v, t)
    /\ last'.op = "Get" =>
           \E k \in Keys : /\ LRUCache_Get(k)
                           /\ last'.ok = LRUCache_GetResult(k).ok
                           /\ last'.val = LRUCache_GetResult(k).val
    /\ last'.op = "Touch" =>
           \E k \in Keys : LRUCache_Touch(k) /\ last'.ok = LRUCache_TouchResult(k)
    /\ last'.op = "Delete" => \E k \in Keys : LRUCache_Delete(k)
    /\ last'.op = "Clear" => LRUCache_Clear
    /\ last'.op = "sweep" => LRUCache_cleanupExpiredKeys
    /\ last'.op \in {"SetWithTTL", "Get", "Touch", "Delete", "Clear", "sweep", "none"}

\* C32: the store NewCache makes from a cfg.Type that is neither "LRU" nor
\* "FIFO" is an *LRUCache of the capacity and default TTL given: every
\* operation on it is the LRUCache method and returns what that returns, a
\* read promotes and an insertion into the full store evicts the least
\* recently used entry.
C32_PolicyFallback ==
    [][cfgType \notin Policies =>
           /\ policy = "LRU"
           /\ LRUCache_Step
           /\ last'.victim = last'.oldest
           /\ script' = 4 => KeysOf(list') = {"a", "c"}]_vars

\* NewCache was given the empty string; Set(a), Set(b), Get(a), Set(c) have
\* run on the store of capacity 2, and the last call evicted b
C32_Witness ==
    /\ cfgType = ""
    /\ maxSize = 2 /\ defaultTtl = 1
    /\ stopChan = "open"
    /\ script = 4 /\ last.victim = "b" /\ KeysOf(list) = {"a", "c"}

\* max(1, capacity)
AtLeastOne(capacity) == IF capacity > 1 THEN capacity ELSE 1

\* C38: a store constructed with a capacity that is zero or negative is
\* accepted, and Size() <= max(1, capacity) before and after every call; in
\* such a store an insertion of a new key leaves that key as the only entry,
\* the entry that was at the front, if any, having been evicted.
C38_NonPositiveCapacity ==
    [][/\ Cache_Size <= AtLeastOne(maxSize)
       /\ Cache_Size' <= AtLeastOne(maxSize')
       /\ (/\ maxSize <= 0
           /\ last'.op = "SetWithTTL"
           /\ KeysOf(list') \ KeysOf(list) # {})
              => /\ Len(list') = 1
                 /\ cacheData' = KeysOf(list')
                 /\ list # <<>> =>
                        /\ Len(list) = 1
                        /\ Head(list).key \notin KeysOf(list')
                        /\ Head(list).key \notin cacheData'
                        /\ last'.victim = Head(list).key]_vars

\* a store of negative capacity in which the insertion of a second key has
\* just evicted the first
C38_Witness ==
    /\ maxSize = -1
    /\ last.op = "SetWithTTL"
    /\ last.case = "absent"
    /\ last.victim # NoKey
    /\ Cache_Size = 1
    /\ last.victim \notin KeysOf(list)

(* ------------------------------------------------------------------------ *)

\* C11: two overlapping calls for the same key that miss tier 1, pass
\* different tier-1 stores and have their own fetchAPI each run their own miss
\* path: neither receives the result of the other's execution, and a call
\* that returns a value has written it to the store it passed.
C11_CoalescerScope ==
    \A p, q \in Callers :
        (/\ pc[p] = "done" /\ pc[q] = "done" /\ overlap
         /\ call[p].key = call[q].key
         /\ memCacheOf[p] # memCacheOf[q]
         /\ "t1hit" \notin did[p] /\ "t1hit" \notin did[q])
            => /\ "join" \notin did[p]
               /\ "exec" \in did[p]
               /\ returned[p].err = NoErr => "set1" \in did[p]

====
